---- MODULE Spec2Model ----
(***************************************************************************)
(* Me-API Playground (FastAPI + SQLAlchemy): the single-profile CRUD API.  *)
(* The relational store is modelled as the set of committed rows of each   *)
(* table plus, per request, the uncommitted work of its session: rows      *)
(* flushed but not committed, rows deleted by bulk DELETE statements, the  *)
(* pending UPDATE of the profile row and the Project objects waiting for   *)
(* the final flush.  Every statement reads the rows committed at that      *)
(* moment plus the session's own work (PostgreSQL READ COMMITTED, the      *)
(* engine default of src/database.py).                                     *)
(***************************************************************************)
EXTENDS Integers, Sequences, FiniteSets, TLC

VARIABLES db, seq, clock, sess

vars == <<db, seq, clock, sess>>

(* ------------------------------ bounds -------------------------------- *)

\* write requests served one after the other
MaxRequests == 2
\* write requests raced against each other
MaxConcRequests == 2
\* write requests served before the tables are queried
MaxReadRequests == 2
\* PUT /profile requests served while the collections are read
MaxRaceRequests == 1
\* profile ids the runs of the seed script may draw
MaxSeedRuns == 2

(* ---------------------------- value domains --------------------------- *)

NULL == "NULL"

Sessions == {"s1", "s2"}

Tables == {"profiles", "education", "work_experience", "projects", "skills",
           "social_links", "project_skills"}

ChildTables == {"education", "work_experience", "projects", "skills", "social_links"}

EmptyDb ==
    [profiles |-> {}, education |-> {}, work_experience |-> {}, projects |-> {},
     skills |-> {}, social_links |-> {}, project_skills |-> {}]

ADMIN_USERNAME == "admin"
ADMIN_PASSWORD == "niweshsah"

\* the username/password pairs a caller may send
Credentials ==
    { [username |-> ADMIN_USERNAME, password |-> ADMIN_PASSWORD],
      [username |-> ADMIN_USERNAME, password |-> "guess"],
      [username |-> "root", password |-> ADMIN_PASSWORD] }

\* skill_ids lists: order is irrelevant to IN (...), repetition is kept
SkillIdLists == { <<>>, <<1>>, <<1, 1>>, <<1, 2>> }

\* the lists a body may carry for a collection
Lists(S) == { <<>> } \cup { <<x>> : x \in S }

\* Optional[List[...]] = None is the empty set, a supplied list v is {v}
None == {}
Some(v) == {v}
The(o) == CHOOSE v \in o : TRUE
Optional(S) == {None} \cup { Some(v) : v \in S }

EducationCreate == [institution : {"MIT"}, degree : {"BS"}, gpa : {NULL}]
WorkExperienceCreate == [company : {"Acme"}, position : {"Engineer"}, description : {NULL}]
SkillCreate == [name : {"Go", "React"}, level : {NULL}]
ProjectCreate == [name : {"Chat App"}, description : {NULL}, status : {NULL},
                  skill_ids : SkillIdLists]
SocialLinkCreate == [platform : {"github"}, url : {"https://github.com/x"}]

Range(f) == { f[i] : i \in DOMAIN f }

(* ------------------------------- rows --------------------------------- *)

Profile(id, b, created, updated) ==
    [id |-> id, name |-> b.name, email |-> b.email, phone |-> b.phone,
     location |-> b.location, bio |-> b.bio,
     created_at |-> created, updated_at |-> updated]

Education(id, pid, e) ==
    [id |-> id, profile_id |-> pid, institution |-> e.institution,
     degree |-> e.degree, gpa |-> e.gpa]

WorkExperience(id, pid, w) ==
    [id |-> id, profile_id |-> pid, company |-> w.company,
     position |-> w.position, description |-> w.description]

Skill(id, pid, k) ==
    [id |-> id, profile_id |-> pid, name |-> k.name, level |-> k.level]

Project(id, pid, p) ==
    [id |-> id, profile_id |-> pid, name |-> p.name,
     description |-> p.description, status |-> p.status]

SocialLink(id, pid, l) ==
    [id |-> id, profile_id |-> pid, platform |-> l.platform, url |-> l.url]

project_skills(project_id, skill_id) ==
    [project_id |-> project_id, skill_id |-> skill_id]

\* the pair a stored project_skills row holds
Pair(l) == project_skills(l.project_id, l.skill_id)

\* the project_skills table after the INSERT of `pairs`: the table is a
\* multiset of pairs, `copy` telling apart the rows that hold the same pair
Stored(links, pairs) ==
    links \cup { [project_id |-> l.project_id, skill_id |-> l.skill_id,
                  copy |-> 1 + Cardinality({ x \in links : Pair(x) = l })]
                 : l \in pairs }

\* a project_skills table declared without its primary key
PrimaryKeyHolds_undeclared(links, pairs) == TRUE

\* PrimaryKeyConstraint(project_id, skill_id): an INSERT of a pair the table
\* holds raises IntegrityError
PrimaryKeyHolds(links, pairs) ==
    \A l \in pairs : \A x \in links : Pair(x) # l

NewRow(T, id, pid, x) ==
    CASE T = "education"       -> Education(id, pid, x)
      [] T = "work_experience" -> WorkExperience(id, pid, x)
      [] T = "skills"          -> Skill(id, pid, x)
      [] T = "projects"        -> Project(id, pid, x)
      [] T = "social_links"    -> SocialLink(id, pid, x)

\* the rows INSERTed for a list of inputs: ids come from the table's sequence
NewRows(T, pid, list) ==
    { NewRow(T, seq[T] + i, pid, list[i]) : i \in 1..Len(list) }

Ids(rows) == { r.id : r \in rows }

(* ----------------------------- sessions ------------------------------- *)

NoBody == [none |-> TRUE]

\* a session with no request: SessionLocal() before any statement
Idle ==
    [pc |-> "idle", op |-> "none", id |-> 0, body |-> NoBody, status |-> 0,
     pid |-> 0, k |-> 0, ins |-> EmptyDb, del |-> EmptyDb, upd |-> {},
     loaded |-> {}, pend |-> <<>>, result |-> {}, pre |-> EmptyDb,
     credentials |-> [username |-> "", password |-> ""],
     error |-> "none", blocked |-> FALSE, scan |-> [rows |-> {}, links |-> {}]]

InFlight(t) == sess[t].pc \notin {"idle", "done"}

Key(T, r) == IF T = "project_skills" THEN Pair(r) ELSE r.id

\* the rows a statement of session s reads: committed rows it has not itself
\* deleted or updated, plus the rows it has flushed
Visible(s, T) ==
    LET kept == { r \in db[T] : Key(T, r) \notin sess[s].del[T] }
        mine == IF T = "profiles"
                THEN { r \in kept : r.id \notin Ids(sess[s].upd) } \cup
                     { u \in sess[s].upd : u.id \in Ids(kept) }
                ELSE IF T = "project_skills"
                THEN { Pair(l) : l \in kept }
                ELSE kept
    IN  mine \cup sess[s].ins[T]

\* row locks held by the other open transactions
WriteLockedByOther(s, T, key) ==
    \E t \in Sessions \ {s} :
        /\ InFlight(t)
        /\ \/ key \in sess[t].del[T]
           \/ T = "profiles" /\ key \in Ids(sess[t].upd)

\* an uncommitted child row of another transaction pins its parent profile
RefLockedByOther(s, pid) ==
    \E t \in Sessions \ {s} :
        /\ InFlight(t)
        /\ \E T \in ChildTables : \E r \in sess[t].ins[T] : r.profile_id = pid

\* an uncommitted row of another transaction holds the same unique email
EmailHeldByOther(s, email) ==
    \E t \in Sessions \ {s} :
        /\ InFlight(t)
        /\ \E p \in sess[t].ins.profiles \cup sess[t].upd : p.email = email

(* ------------------------ the store at COMMIT ------------------------- *)

\* rows of child table T removed by the transaction's DELETEs, the
\* ON DELETE CASCADE of profiles.id included
Gone(d, del, T) ==
    { r \in d[T] : r.id \in del[T] \/ r.profile_id \in del.profiles }

\* the committed store after the transaction of session s commits, its last
\* flush inserting the rows of `last` (a store-shaped record)
Committed(d, tx, last) ==
    LET goneP == Ids(Gone(d, tx.del, "projects"))
        goneS == Ids(Gone(d, tx.del, "skills"))
        keepLink(l) == /\ Pair(l) \notin tx.del.project_skills
                       /\ l.project_id \notin goneP
                       /\ l.skill_id \notin goneS
        profiles1 == { p \in d.profiles : p.id \notin tx.del.profiles }
        profiles2 == { p \in profiles1 : p.id \notin Ids(tx.upd) } \cup
                     { u \in tx.upd : u.id \in Ids(profiles1) }
        rest(T) == (d[T] \ Gone(d, tx.del, T)) \cup tx.ins[T] \cup last[T]
    IN  [profiles |-> profiles2 \cup tx.ins.profiles \cup last.profiles,
         education |-> rest("education"),
         work_experience |-> rest("work_experience"),
         projects |-> rest("projects"),
         skills |-> rest("skills"),
         social_links |-> rest("social_links"),
         project_skills |-> Stored({ l \in d.project_skills : keepLink(l) },
                                   tx.ins.project_skills \cup last.project_skills)]

\* the response of a finished request; the session is closed (db.close()),
\* which discards whatever was not committed
Respond(t, status) ==
    [Idle EXCEPT !.pc = "done", !.op = t.op, !.id = t.id,
                 !.body = IF status < 400 THEN t.body ELSE NoBody,
                 !.pid = t.pid, !.status = status, !.pre = t.pre,
                 !.credentials = t.credentials]

Finish(s, status) == sess' = [sess EXCEPT ![s] = Respond(sess[s], status)]

\* an exception no handler catches: the response is 500 Internal Server Error
Raise(s, exception) ==
    sess' = [sess EXCEPT ![s] = [Respond(sess[s], 500) EXCEPT !.error = exception]]

\* the table of the object a handler passes to db.refresh()
Refreshed(op) ==
    CASE op \in {"create_profile", "update_profile"} -> "profiles"
      [] op \in {"create_education", "update_education"} -> "education"
      [] op \in {"create_work_experience", "update_work_experience"} -> "work_experience"
      [] op \in {"create_project", "update_project"} -> "projects"
      [] op \in {"create_skill", "update_skill"} -> "skills"
      [] op \in {"create_social_link", "update_social_link"} -> "social_links"

\* db.commit() has returned: the transaction is over, its locks are released
\* and the object with primary key id is expired
Commit(s, id, ok) ==
    sess' = [sess EXCEPT ![s] = [Respond(sess[s], ok) EXCEPT !.pc = "refresh", !.k = id]]

\* db.refresh(obj): SELECT the row by primary key in a new transaction; a row
\* that is gone raises InvalidRequestError
refresh(s) ==
    /\ sess[s].pc = "refresh"
    /\ IF sess[s].k \in Ids(db[Refreshed(sess[s].op)])
       THEN Finish(s, sess[s].status)
       ELSE Raise(s, "InvalidRequestError")
    /\ UNCHANGED <<db, seq, clock>>

At(s, op, pc) == sess[s].op = op /\ sess[s].pc = pc

Goto(s, pc) == sess' = [sess EXCEPT ![s].pc = pc]

(* ------------------------------- auth --------------------------------- *)

\* credentials accepted as soon as one of the two comparisons succeeds
verify_credentials_either(credentials) ==
    LET correct_username == credentials.username = ADMIN_USERNAME
        correct_password == credentials.password = ADMIN_PASSWORD
    IN  correct_username \/ correct_password

\* secrets.compare_digest on the utf-8 encodings: equality of the strings
verify_credentials(credentials) ==
    LET correct_username == credentials.username = ADMIN_USERNAME
        correct_password == credentials.password = ADMIN_PASSWORD
    IN  correct_username /\ correct_password

\* the endpoints declared with Depends(verify_credentials)
WriteOps ==
    { "create_profile", "update_profile", "delete_profile",
      "create_education", "update_education", "delete_education",
      "create_work_experience", "update_work_experience", "delete_work_experience",
      "create_project", "update_project", "delete_project",
      "create_skill", "update_skill", "delete_skill",
      "create_social_link", "update_social_link", "delete_social_link" }

\* a request arrives: FastAPI resolves get_db and, for a write endpoint,
\* verify_credentials before the handler runs; the handler of a request that
\* fails verify_credentials never runs; a read endpoint takes no credentials.
\* `callers` are the credentials requests come with, `max` caps the write
\* requests committed or still in flight, `pre` is the snapshot of the tables
\* kept with the request
Arrive(s, requests, callers, max, pre) ==
    /\ sess[s].pc = "idle"
    /\ \E credentials \in callers :
         IF verify_credentials(credentials)
         THEN \E req \in requests :
                /\ req.op \in WriteOps =>
                     clock + Cardinality({ t \in Sessions : InFlight(t) }) < max
                /\ sess' = [sess EXCEPT ![s] =
                              [Idle EXCEPT !.pc = "check", !.op = req.op, !.id = req.id,
                                           !.body = req.body, !.pre = pre,
                                           !.credentials =
                                               IF req.op \in WriteOps THEN credentials
                                               ELSE Idle.credentials]]
         ELSE \E req \in { [op |-> r.op, id |-> r.id] : r \in requests } :
                /\ req.op \in WriteOps
                /\ clock + Cardinality({ t \in Sessions : InFlight(t) }) < max
                /\ sess' = [sess EXCEPT ![s] =
                              Respond([Idle EXCEPT !.op = req.op, !.id = req.id,
                                                   !.pre = pre,
                                                   !.credentials = credentials], 401)]
    /\ UNCHANGED <<db, seq, clock>>

(* --------------------------- GET /profile ----------------------------- *)

\* ProfileResponse: the profile row with its relationships loaded
ProfileResponse(s, p) ==
    [profile |-> p,
     education |-> { r \in Visible(s, "education") : r.profile_id = p.id },
     work_experience |-> { r \in Visible(s, "work_experience") : r.profile_id = p.id },
     projects |-> { [project |-> r,
                     skills |-> { k \in Visible(s, "skills") :
                                    project_skills(r.id, k.id) \in Visible(s, "project_skills") }]
                    : r \in { r \in Visible(s, "projects") : r.profile_id = p.id } },
     skills |-> { r \in Visible(s, "skills") : r.profile_id = p.id },
     social_links |-> { r \in Visible(s, "social_links") : r.profile_id = p.id }]

read_profile(s) ==
    /\ At(s, "read_profile", "check")
    /\ IF Visible(s, "profiles") = {}
       THEN Finish(s, 404)
       ELSE \E profile \in Visible(s, "profiles") :
              sess' = [sess EXCEPT ![s] =
                         [Respond([sess[s] EXCEPT !.pid = profile.id], 200)
                            EXCEPT !.result = {ProfileResponse(s, profile)}]]
    /\ UNCHANGED <<db, seq, clock>>

(* --------------------------- POST /profile ---------------------------- *)

\* a POST /profile that goes on to the INSERT whatever the query returned
create_profile_check_ignored(s) ==
    /\ At(s, "create_profile", "check")
    /\ Goto(s, "insert")
    /\ UNCHANGED <<db, seq, clock>>

\* existing_profile = db.query(Profile).first()
create_profile_check(s) ==
    /\ At(s, "create_profile", "check")
    /\ IF Visible(s, "profiles") # {}
       THEN Finish(s, 400)
       ELSE Goto(s, "insert")
    /\ UNCHANGED <<db, seq, clock>>

\* db.add(profile); db.flush(): INSERT INTO profiles, the unique index on
\* email checked against the committed rows
create_profile_insert(s) ==
    /\ At(s, "create_profile", "insert")
    /\ ~EmailHeldByOther(s, sess[s].body.email)
    /\ LET id == seq.profiles + 1
           profile == Profile(id, sess[s].body, clock + 1, clock + 1)
       IN  /\ seq' = [seq EXCEPT !.profiles = id]
           /\ IF \E p \in db.profiles : p.email = profile.email
              THEN Raise(s, "IntegrityError")
              ELSE sess' = [sess EXCEPT ![s].pc = "children", ![s].pid = id,
                                        ![s].ins.profiles = {profile}]
    /\ UNCHANGED <<db, clock>>

\* a POST /profile whose education loop is missing
create_profile_children_no_education(s) ==
    /\ At(s, "create_profile", "children")
    /\ LET b == sess[s].body
           pid == sess[s].pid
       IN  /\ sess' = [sess EXCEPT
                  ![s].pc = IF Len(b.projects) = 0 THEN "commit" ELSE "projects",
                  ![s].k = 1,
                  ![s].ins.work_experience = NewRows("work_experience", pid, b.work_experience),
                  ![s].ins.skills = NewRows("skills", pid, b.skills)]
           /\ seq' = [seq EXCEPT
                  !.work_experience = @ + Len(b.work_experience),
                  !.skills = @ + Len(b.skills)]
    /\ UNCHANGED <<db, clock>>

\* education, work experience and skills are added, then db.flush()
create_profile_children(s) ==
    /\ At(s, "create_profile", "children")
    /\ LET b == sess[s].body
           pid == sess[s].pid
       IN  /\ sess' = [sess EXCEPT
                  ![s].pc = IF Len(b.projects) = 0 THEN "commit" ELSE "projects",
                  ![s].k = 1,
                  ![s].ins.education = NewRows("education", pid, b.education),
                  ![s].ins.work_experience = NewRows("work_experience", pid, b.work_experience),
                  ![s].ins.skills = NewRows("skills", pid, b.skills)]
           /\ seq' = [seq EXCEPT
                  !.education = @ + Len(b.education),
                  !.work_experience = @ + Len(b.work_experience),
                  !.skills = @ + Len(b.skills)]
    /\ UNCHANGED <<db, clock>>

\* the listed ids taken for skills without the query
ResolveSkills_unqueried(s, skill_ids) == Range(skill_ids)

\* skills = db.query(Skill).filter(Skill.id.in_(skill_ids)).all(): the ids of
\* the Skill rows the statement reads, each once
ResolveSkills(s, skill_ids) ==
    { k.id : k \in { k \in Visible(s, "skills") : k.id \in Range(skill_ids) } }

\* one turn of the projects loop: the Project object with its skills, pending
ResolveProject(s, list, next) ==
    /\ sess' = [sess EXCEPT
           ![s].pc = IF sess[s].k = Len(list) THEN next ELSE @,
           ![s].k = @ + 1,
           ![s].pend = Append(@, [data |-> list[sess[s].k],
                                  skills |-> ResolveSkills(s, list[sess[s].k].skill_ids)])]
    /\ UNCHANGED <<db, seq, clock>>

create_profile_projects(s) ==
    /\ At(s, "create_profile", "projects")
    /\ ResolveProject(s, sess[s].body.projects, "commit")

\* the rows of the final flush: the pending projects with their
\* project_skills rows, and the social links
LastFlush(s, pid, social_links) ==
    LET pend == sess[s].pend
    IN  [EmptyDb EXCEPT
           !.projects = { Project(seq.projects + i, pid, pend[i].data) : i \in DOMAIN pend },
           !.project_skills = UNION { { project_skills(seq.projects + i, k) : k \in pend[i].skills }
                                      : i \in DOMAIN pend },
           !.social_links = NewRows("social_links", pid, social_links)]

\* the foreign keys of the rows of the final flush are checked against the
\* rows the transaction reads at that moment, their primary keys against the
\* table
ForeignKeysHold(s, pid, last) ==
    /\ pid \in Ids(Visible(s, "profiles"))
    /\ \A l \in last.project_skills : l.skill_id \in Ids(Visible(s, "skills"))
    /\ PrimaryKeyHolds(db.project_skills, last.project_skills)

\* a row the final flush references is being deleted by an open transaction
FlushWaits(s, pid, last) ==
    \/ WriteLockedByOther(s, "profiles", pid) /\ pid \in Ids(db.profiles)
    \/ \E l \in last.project_skills : WriteLockedByOther(s, "skills", l.skill_id)

\* db.commit(): the final flush, then COMMIT; an IntegrityError rolls back
CommitWith(s, pid, social_links, id, ok) ==
    LET last == LastFlush(s, pid, social_links)
    IN  /\ ~FlushWaits(s, pid, last)
        /\ seq' = [seq EXCEPT !.projects = @ + Len(sess[s].pend),
                              !.social_links = @ + Len(social_links)]
        /\ IF ForeignKeysHold(s, pid, last)
           THEN /\ db' = Committed(db, sess[s], last)
                /\ Commit(s, id, ok)
                /\ clock' = clock + 1
           ELSE /\ db' = db
                /\ Raise(s, "IntegrityError")
                /\ clock' = clock

create_profile_commit(s) ==
    /\ At(s, "create_profile", "commit")
    /\ CommitWith(s, sess[s].pid, sess[s].body.social_links, sess[s].pid, 201)

create_profile(s) ==
    \/ create_profile_check(s)
    \/ create_profile_insert(s)
    \/ create_profile_children(s)
    \/ create_profile_projects(s)
    \/ create_profile_commit(s)

(* -------------------------- DELETE /profile --------------------------- *)

\* profile = db.query(Profile).first(): any one row, the query has no ORDER BY
delete_profile_check(s) ==
    /\ At(s, "delete_profile", "check")
    /\ IF Visible(s, "profiles") = {}
       THEN Finish(s, 404)
       ELSE \E profile \in Visible(s, "profiles") :
              sess' = [sess EXCEPT ![s].pc = "commit", ![s].pid = profile.id]
    /\ UNCHANGED <<db, seq, clock>>

\* a row the DELETE of profile pid touches is locked by an open transaction
DeleteProfileWaits(s, pid) ==
    \/ WriteLockedByOther(s, "profiles", pid)
    \/ RefLockedByOther(s, pid)
    \/ \E T \in ChildTables : \E r \in db[T] :
         r.profile_id = pid /\ WriteLockedByOther(s, T, r.id)

\* db.delete(profile); db.commit(): the ORM deletes the loaded children and the
\* profile row, ON DELETE CASCADE removes what references them
delete_profile_commit(s) ==
    /\ At(s, "delete_profile", "commit")
    /\ ~DeleteProfileWaits(s, sess[s].pid)
    /\ db' = Committed(db, [sess[s] EXCEPT !.del.profiles = {sess[s].pid}], EmptyDb)
    /\ Finish(s, 204)
    /\ clock' = clock + 1
    /\ seq' = seq

delete_profile(s) ==
    \/ delete_profile_check(s)
    \/ delete_profile_commit(s)

(* ---------------------------- PUT /profile ---------------------------- *)

\* a PUT /profile that replaces the projects before the skills
NextStatement_projects_first(b, after) ==
    LET order == <<"check", "education", "work_experience", "projects", "resolve",
                   "skills", "flush", "social_links", "commit">>
        runs(pc) == CASE pc \in {"education", "work_experience", "skills",
                                 "projects", "social_links"} -> b[pc] # None
                      [] pc = "resolve" -> b.projects # None /\ Len(The(b.projects)) > 0
                      [] OTHER -> TRUE
        pos == CHOOSE i \in DOMAIN order : order[i] = after
    IN  order[CHOOSE i \in DOMAIN order :
                 /\ i > pos
                 /\ runs(order[i])
                 /\ \A j \in (pos + 1)..(i - 1) : ~runs(order[j])]

\* a PUT /profile that tests `is not None` on no collection: every DELETE
\* is issued
NextStatement_unconditional(b, after) ==
    LET order == <<"check", "education", "work_experience", "skills", "flush",
                   "projects", "resolve", "social_links", "commit">>
        runs(pc) == CASE pc = "resolve" -> b.projects # None /\ Len(The(b.projects)) > 0
                      [] OTHER -> TRUE
        pos == CHOOSE i \in DOMAIN order : order[i] = after
    IN  order[CHOOSE i \in DOMAIN order :
                 /\ i > pos
                 /\ runs(order[i])
                 /\ \A j \in (pos + 1)..(i - 1) : ~runs(order[j])]

\* the statements of update_profile, in the order the handler issues them;
\* the DELETE of a collection is issued only when the body carries the field
NextStatement(b, after) ==
    LET order == <<"check", "education", "work_experience", "skills", "flush",
                   "projects", "resolve", "social_links", "commit">>
        runs(pc) == CASE pc \in {"education", "work_experience", "skills",
                                 "projects", "social_links"} -> b[pc] # None
                      [] pc = "resolve" -> b.projects # None /\ Len(The(b.projects)) > 0
                      [] OTHER -> TRUE
        pos == CHOOSE i \in DOMAIN order : order[i] = after
    IN  order[CHOOSE i \in DOMAIN order :
                 /\ i > pos
                 /\ runs(order[i])
                 /\ \A j \in (pos + 1)..(i - 1) : ~runs(order[j])]

\* profile = db.query(Profile).first(); the assignments to its attributes
\* stay pending in the session until the flush, updated_at = utcnow() read
\* here
update_profile_check(s) ==
    /\ At(s, "update_profile", "check")
    /\ IF Visible(s, "profiles") = {}
       THEN Finish(s, 404)
       ELSE \E profile \in Visible(s, "profiles") :
              sess' = [sess EXCEPT ![s].pc = NextStatement(sess[s].body, "check"),
                                   ![s].pid = profile.id,
                                   ![s].loaded = {[profile EXCEPT !.updated_at = clock + 1]}]
    /\ UNCHANGED <<db, seq, clock>>

\* a PUT /profile whose DELETE matches no row
BulkDelete_nothing(s, T) ==
    /\ sess' = [sess EXCEPT ![s].pc = NextStatement(sess[s].body, T), ![s].k = 1]
    /\ UNCHANGED <<db, seq, clock>>

\* db.query(X).filter(X.profile_id == profile.id).delete(): a bulk DELETE,
\* executed at once; project_skills rows go with their project or skill.
\* The statement scans the rows committed when it starts; it waits on a row
\* an open transaction has deleted and, once that transaction is over,
\* deletes the rows of its scan that are left: it never sees a row committed
\* after it started
BulkDelete(s, T) ==
    LET rows == { r \in Visible(s, T) : r.profile_id = sess[s].pid }
        links == { l \in Visible(s, "project_skills") :
                     \/ T = "projects" /\ l.project_id \in Ids(rows)
                     \/ T = "skills" /\ l.skill_id \in Ids(rows) }
        waits == \E r \in rows : WriteLockedByOther(s, T, r.id)
    IN  /\ \/ /\ ~sess[s].blocked
              /\ ~waits
              /\ sess' = [sess EXCEPT ![s].pc = NextStatement(sess[s].body, T),
                                      ![s].k = 1,
                                      ![s].del[T] = @ \cup Ids(rows),
                                      ![s].del.project_skills = @ \cup links]
           \/ /\ ~sess[s].blocked
              /\ waits
              /\ sess' = [sess EXCEPT ![s].blocked = TRUE,
                                      ![s].scan = [rows |-> Ids(rows), links |-> links]]
           \/ /\ sess[s].blocked
              /\ \A id \in sess[s].scan.rows : ~WriteLockedByOther(s, T, id)
              /\ sess' = [sess EXCEPT ![s].pc = NextStatement(sess[s].body, T),
                                      ![s].k = 1,
                                      ![s].blocked = FALSE,
                                      ![s].scan = Idle.scan,
                                      ![s].del[T] = @ \cup sess[s].scan.rows,
                                      ![s].del.project_skills = @ \cup sess[s].scan.links]
        /\ UNCHANGED <<db, seq, clock>>

update_profile_delete(s) ==
    \E T \in ChildTables :
        /\ At(s, "update_profile", T)
        /\ BulkDelete(s, T)

\* a PUT /profile that assigns only the scalars the body carries a value for
UpdatedProfile_preserving(row, loaded, b, now) ==
    LET set(f) == IF b[f] # NULL /\ b[f] # loaded[f] THEN b[f] ELSE row[f]
    IN  [row EXCEPT !.name = set("name"), !.email = set("email"),
                    !.phone = set("phone"), !.location = set("location"),
                    !.bio = set("bio"), !.updated_at = now]

\* a PUT /profile that assigns the five scalars and not updated_at, on a
\* column declared without onupdate
UpdatedProfile_unstamped(row, loaded, b, now) ==
    LET set(f) == IF b[f] # loaded[f] THEN b[f] ELSE row[f]
    IN  [row EXCEPT !.name = set("name"), !.email = set("email"),
                    !.phone = set("phone"), !.location = set("location"),
                    !.bio = set("bio")]

\* the profile row as the UPDATE of the flush leaves it: the ORM writes the
\* attributes whose value differs from the one it loaded
UpdatedProfile(row, loaded, b, now) ==
    LET set(f) == IF b[f] # loaded[f] THEN b[f] ELSE row[f]
    IN  [row EXCEPT !.name = set("name"), !.email = set("email"),
                    !.phone = set("phone"), !.location = set("location"),
                    !.bio = set("bio"), !.updated_at = now]

\* db.flush(): UPDATE profiles (updated_at is always assigned, so the UPDATE
\* is always issued), INSERT the new education, work experience and skill rows
update_profile_flush(s) ==
    /\ At(s, "update_profile", "flush")
    /\ ~WriteLockedByOther(s, "profiles", sess[s].pid)
    /\ LET b == sess[s].body
           pid == sess[s].pid
           loaded == The(sess[s].loaded)
           list(T) == IF b[T] = None THEN <<>> ELSE The(b[T])
           stale == pid \notin Ids(db.profiles)
           row == IF stale THEN loaded ELSE CHOOSE p \in db.profiles : p.id = pid
           new == UpdatedProfile(row, loaded, b, loaded.updated_at)
       IN  /\ (~stale /\ new.email # row.email) => ~EmailHeldByOther(s, new.email)
           /\ IF stale \/ \E p \in db.profiles : p.id # pid /\ p.email = new.email
              THEN /\ Raise(s, IF stale THEN "StaleDataError" ELSE "IntegrityError")
                   /\ seq' = seq
              ELSE /\ sess' = [sess EXCEPT
                          ![s].pc = NextStatement(b, "flush"),
                          ![s].k = 1,
                          ![s].upd = {new},
                          ![s].ins.education = NewRows("education", pid, list("education")),
                          ![s].ins.work_experience =
                              NewRows("work_experience", pid, list("work_experience")),
                          ![s].ins.skills = NewRows("skills", pid, list("skills"))]
                   /\ seq' = [seq EXCEPT
                          !.education = @ + Len(list("education")),
                          !.work_experience = @ + Len(list("work_experience")),
                          !.skills = @ + Len(list("skills"))]
    /\ UNCHANGED <<db, clock>>

update_profile_projects(s) ==
    /\ At(s, "update_profile", "resolve")
    /\ ResolveProject(s, The(sess[s].body.projects),
                      NextStatement(sess[s].body, "resolve"))

update_profile_commit(s) ==
    /\ At(s, "update_profile", "commit")
    /\ CommitWith(s, sess[s].pid,
                  IF sess[s].body.social_links = None THEN <<>>
                  ELSE The(sess[s].body.social_links), sess[s].pid, 200)

update_profile(s) ==
    \/ update_profile_check(s)
    \/ update_profile_delete(s)
    \/ update_profile_flush(s)
    \/ update_profile_projects(s)
    \/ update_profile_commit(s)

(* ------------------- POST /education, ... (children) ------------------ *)

\* a POST of a child that does not test the profile it read
create_check_untested(s, op, next) ==
    /\ At(s, op, "check")
    /\ sess' = [sess EXCEPT ![s].pc = next, ![s].k = 1]
    /\ UNCHANGED <<db, seq, clock>>

\* profile = db.query(Profile).first()
create_check(s, op, next) ==
    /\ At(s, op, "check")
    /\ IF Visible(s, "profiles") = {}
       THEN Finish(s, 404)
       ELSE \E profile \in Visible(s, "profiles") :
              sess' = [sess EXCEPT ![s].pc = next, ![s].k = 1, ![s].pid = profile.id]
    /\ UNCHANGED <<db, seq, clock>>

\* a child table whose profile_id is declared without ForeignKey
create_commit_unreferenced(s, op, T) ==
    /\ At(s, op, "commit")
    /\ seq' = [seq EXCEPT ![T] = @ + 1]
    /\ db' = Committed(db, sess[s],
                 [EmptyDb EXCEPT ![T] = NewRows(T, sess[s].pid, <<sess[s].body>>)])
    /\ Commit(s, seq[T] + 1, 201)
    /\ clock' = clock + 1

\* db.add(row); db.commit(): INSERT the row, its profile_id checked against
\* profiles.id, then COMMIT
create_commit(s, op, T) ==
    /\ At(s, op, "commit")
    /\ ~(WriteLockedByOther(s, "profiles", sess[s].pid) /\ sess[s].pid \in Ids(db.profiles))
    /\ seq' = [seq EXCEPT ![T] = @ + 1]
    /\ IF sess[s].pid \in Ids(Visible(s, "profiles"))
       THEN /\ db' = Committed(db, sess[s],
                        [EmptyDb EXCEPT ![T] = NewRows(T, sess[s].pid, <<sess[s].body>>)])
            /\ Commit(s, seq[T] + 1, 201)
            /\ clock' = clock + 1
       ELSE /\ db' = db
            /\ Raise(s, "IntegrityError")
            /\ clock' = clock

create_education(s) ==
    \/ create_check(s, "create_education", "commit")
    \/ create_commit(s, "create_education", "education")

create_work_experience(s) ==
    \/ create_check(s, "create_work_experience", "commit")
    \/ create_commit(s, "create_work_experience", "work_experience")

create_skill(s) ==
    \/ create_check(s, "create_skill", "commit")
    \/ create_commit(s, "create_skill", "skills")

create_social_link(s) ==
    \/ create_check(s, "create_social_link", "commit")
    \/ create_commit(s, "create_social_link", "social_links")

create_project(s) ==
    \/ create_check(s, "create_project",
                    IF Len(sess[s].body.skill_ids) = 0 THEN "commit" ELSE "resolve")
    \/ /\ At(s, "create_project", "resolve")
       /\ ResolveProject(s, <<sess[s].body>>, "commit")
    \/ /\ At(s, "create_project", "commit")
       /\ sess[s].pend = <<>>
       /\ create_commit(s, "create_project", "projects")
    \/ /\ At(s, "create_project", "commit")
       /\ sess[s].pend # <<>>
       /\ CommitWith(s, sess[s].pid, <<>>, seq.projects + 1, 201)

(* --------------------- DELETE /education/{id}, ... -------------------- *)

\* a lookup whose query has no filter on the id: first() of the whole table
lookup_unfiltered(s, op, T, next) ==
    /\ At(s, op, "check")
    /\ IF Visible(s, T) = {}
       THEN Finish(s, 404)
       ELSE \E row \in Visible(s, T) :
              sess' = [sess EXCEPT ![s].pc = next, ![s].loaded = {row}]
    /\ UNCHANGED <<db, seq, clock>>

\* row = db.query(X).filter(X.id == id).first()
lookup(s, op, T, next) ==
    /\ At(s, op, "check")
    /\ IF sess[s].id \notin Ids(Visible(s, T))
       THEN Finish(s, 404)
       ELSE sess' = [sess EXCEPT ![s].pc = next,
                       ![s].loaded = { r \in Visible(s, T) : r.id = sess[s].id }]
    /\ UNCHANGED <<db, seq, clock>>

\* a DELETE on a schema whose project_skills rows do not go with the row
delete_commit_uncascaded(s, op, T) ==
    /\ At(s, op, "commit")
    /\ ~WriteLockedByOther(s, T, sess[s].id)
    /\ db' = [db EXCEPT ![T] = { r \in @ : r.id # sess[s].id }]
    /\ Finish(s, 204)
    /\ clock' = clock + 1
    /\ seq' = seq

\* db.delete(row); db.commit(): DELETE the row; its project_skills rows go
\* with a project or a skill
delete_commit(s, op, T) ==
    /\ At(s, op, "commit")
    /\ ~WriteLockedByOther(s, T, sess[s].id)
    /\ db' = Committed(db, [sess[s] EXCEPT !.del[T] = {sess[s].id}], EmptyDb)
    /\ Finish(s, 204)
    /\ clock' = clock + 1
    /\ seq' = seq

delete_education(s) ==
    \/ lookup(s, "delete_education", "education", "commit")
    \/ delete_commit(s, "delete_education", "education")

delete_work_experience(s) ==
    \/ lookup(s, "delete_work_experience", "work_experience", "commit")
    \/ delete_commit(s, "delete_work_experience", "work_experience")

delete_project(s) ==
    \/ lookup(s, "delete_project", "projects", "commit")
    \/ delete_commit(s, "delete_project", "projects")

delete_skill(s) ==
    \/ lookup(s, "delete_skill", "skills", "commit")
    \/ delete_commit(s, "delete_skill", "skills")

delete_social_link(s) ==
    \/ lookup(s, "delete_social_link", "social_links", "commit")
    \/ delete_commit(s, "delete_social_link", "social_links")

(* ----------------------- PUT /education/{id}, ... --------------------- *)

\* a PUT that dumps the body without exclude_unset: a field the caller left
\* out is set to its default, None
Patched_unset(row, loaded, fields) ==
    [f \in DOMAIN row |->
        IF f \in DOMAIN fields THEN fields[f]
        ELSE IF f \in {"id", "profile_id"} THEN row[f] ELSE NULL]

\* for key, value in data.model_dump(exclude_unset=True).items():
\*     setattr(row, key, value)
\* the UPDATE writes the attributes whose value differs from the loaded one
Patched(row, loaded, fields) ==
    [f \in DOMAIN row |->
        IF f \in DOMAIN fields /\ fields[f] # loaded[f] THEN fields[f] ELSE row[f]]

\* a PUT of a child that also stamps the updated_at of its profile
update_commit_stamping(s, op, T) ==
    /\ At(s, op, "commit")
    /\ ~WriteLockedByOther(s, T, sess[s].id)
    /\ LET loaded == The(sess[s].loaded)
           stamped == { [p EXCEPT !.updated_at =
                            IF p.id = loaded.profile_id THEN clock + 1 ELSE @]
                        : p \in db.profiles }
       IN  IF sess[s].id \notin Ids(db[T])
           THEN /\ db' = db
                /\ clock' = clock
                /\ Raise(s, "StaleDataError")
           ELSE LET row == CHOOSE r \in db[T] : r.id = sess[s].id
                    new == Patched(row, loaded, sess[s].body)
                IN  /\ db' = [db EXCEPT ![T] = (@ \ {row}) \cup {new},
                                        !.profiles = stamped]
                    /\ Commit(s, sess[s].id, 200)
                    /\ clock' = clock + 1
    /\ seq' = seq

\* db.commit(): UPDATE the row when an attribute changed (an UPDATE that
\* matches no row raises StaleDataError), then COMMIT
update_commit(s, op, T) ==
    /\ At(s, op, "commit")
    /\ ~WriteLockedByOther(s, T, sess[s].id)
    /\ LET loaded == The(sess[s].loaded)
           dirty == Patched(loaded, loaded, sess[s].body) # loaded
       IN  IF sess[s].id \notin Ids(db[T])
           THEN /\ db' = db
                /\ clock' = clock
                /\ IF dirty THEN Raise(s, "StaleDataError")
                   ELSE Commit(s, sess[s].id, 200)
           ELSE LET row == CHOOSE r \in db[T] : r.id = sess[s].id
                    new == Patched(row, loaded, sess[s].body)
                IN  /\ db' = [db EXCEPT ![T] = (@ \ {row}) \cup {new}]
                    /\ Commit(s, sess[s].id, 200)
                    /\ clock' = clock + 1
    /\ seq' = seq

update_education(s) ==
    \/ lookup(s, "update_education", "education", "commit")
    \/ update_commit(s, "update_education", "education")

update_work_experience(s) ==
    \/ lookup(s, "update_work_experience", "work_experience", "commit")
    \/ update_commit(s, "update_work_experience", "work_experience")

update_skill(s) ==
    \/ lookup(s, "update_skill", "skills", "commit")
    \/ update_commit(s, "update_skill", "skills")

update_social_link(s) ==
    \/ lookup(s, "update_social_link", "social_links", "commit")
    \/ update_commit(s, "update_social_link", "social_links")

\* a PUT /projects/{id} that extends the collection without clearing it
update_project_resolve_appending(s) ==
    /\ At(s, "update_project", "resolve")
    /\ LET old == { l.skill_id : l \in { l \in Visible(s, "project_skills") :
                                           l.project_id = sess[s].id } }
           new == old \cup ResolveSkills(s, The(sess[s].body.skill_ids))
       IN  sess' = [sess EXCEPT ![s].pc = "commit",
                       ![s].pend = <<[data |-> sess[s].body.fields, skills |-> new,
                                      old |-> old]>>]
    /\ UNCHANGED <<db, seq, clock>>

\* project.skills.clear() loads the collection; the skills named by
\* skill_ids are then read and appended
update_project_resolve(s) ==
    /\ At(s, "update_project", "resolve")
    /\ LET old == { l.skill_id : l \in { l \in Visible(s, "project_skills") :
                                           l.project_id = sess[s].id } }
           new == ResolveSkills(s, The(sess[s].body.skill_ids))
       IN  sess' = [sess EXCEPT ![s].pc = "commit",
                       ![s].pend = <<[data |-> sess[s].body.fields, skills |-> new,
                                      old |-> old]>>]
    /\ UNCHANGED <<db, seq, clock>>

\* db.commit(): UPDATE projects, DELETE the project_skills rows of the skills
\* taken out of the collection, INSERT those of the skills put into it
update_project_commit(s) ==
    /\ At(s, "update_project", "commit")
    /\ ~WriteLockedByOther(s, "projects", sess[s].id)
    /\ LET id == sess[s].id
           old == IF sess[s].pend = <<>> THEN {} ELSE sess[s].pend[1].old
           new == IF sess[s].pend = <<>> THEN {} ELSE sess[s].pend[1].skills
           removed == { project_skills(id, k) : k \in old \ new }
           added == { project_skills(id, k) : k \in new \ old }
           stale == \/ id \notin Ids(db.projects)
                    \/ \E l \in removed : \A x \in db.project_skills : Pair(x) # l
           violated == \/ ~PrimaryKeyHolds(db.project_skills, added)
                       \/ \E l \in added : l.skill_id \notin Ids(db.skills)
       IN  /\ \A l \in added : ~WriteLockedByOther(s, "skills", l.skill_id)
           /\ IF stale \/ violated
              THEN /\ db' = db
                   /\ Raise(s, IF stale THEN "StaleDataError" ELSE "IntegrityError")
                   /\ clock' = clock
              ELSE LET row == CHOOSE r \in db.projects : r.id = id
                       patch == Patched(row, The(sess[s].loaded), sess[s].body.fields)
                   IN  /\ db' = [db EXCEPT
                              !.projects = (@ \ {row}) \cup {patch},
                              !.project_skills =
                                  Stored({ l \in @ : Pair(l) \notin removed }, added)]
                       /\ Commit(s, id, 200)
                       /\ clock' = clock + 1
    /\ seq' = seq

update_project(s) ==
    \/ lookup(s, "update_project", "projects",
              IF sess[s].body.skill_ids = None THEN "commit" ELSE "resolve")
    \/ update_project_resolve(s)
    \/ update_project_commit(s)

(* ------------------------ GET /projects/{id} -------------------------- *)

\* ProjectResponse: the project row with its skills relationship loaded
ProjectResponse(s, r) ==
    [project |-> r,
     skills |-> { k \in Visible(s, "skills") :
                    project_skills(r.id, k.id) \in Visible(s, "project_skills") }]

read_project(s) ==
    /\ At(s, "read_project", "check")
    /\ IF sess[s].id \notin Ids(Visible(s, "projects"))
       THEN Finish(s, 404)
       ELSE sess' = [sess EXCEPT ![s] =
                       [Respond(sess[s], 200) EXCEPT !.result =
                           { ProjectResponse(s, r) :
                               r \in { r \in Visible(s, "projects") : r.id = sess[s].id } }]]
    /\ UNCHANGED <<db, seq, clock>>

(* -------------------------- GET /skills/top --------------------------- *)

\* ORDER BY project_count without desc()
desc_ascending(x, y) == x <= y

\* desc('project_count'): x may come before y
desc(x, y) == x >= y

\* Skill LEFT OUTER JOIN project_skills JOIN projects GROUP BY skills.id:
\* count(projects.id) counts the joined rows whose project is not NULL
skills_with_counts(s) ==
    { [skill |-> k,
       project_count |-> Cardinality({ l \in db.project_skills :
                                         /\ l.skill_id = k.id
                                         /\ l.project_id \in Ids(Visible(s, "projects")) })]
      : k \in Visible(s, "skills") }

\* ORDER BY: the orders of the rows the sort key allows, ties in any order
order_by(rows) ==
    { f \in [1..Cardinality(rows) -> rows] :
        /\ \A i, j \in DOMAIN f : i # j => f[i] # f[j]
        /\ \A i, j \in DOMAIN f : i < j => desc(f[i].project_count, f[j].project_count) }

\* LIMIT n
limit(f, n) == [i \in 1..(IF n < Len(f) THEN n ELSE Len(f)) |-> f[i]]

get_top_skills(s) ==
    /\ At(s, "get_top_skills", "check")
    /\ \E f \in order_by(skills_with_counts(s)) :
         sess' = [sess EXCEPT ![s] =
                    [Respond(sess[s], 200) EXCEPT !.result = {limit(f, sess[s].body.limit)}]]
    /\ UNCHANGED <<db, seq, clock>>

(* ---------------------------- GET /search ----------------------------- *)

\* the characters of the strings the searched columns hold
Chars(str) ==
    CASE str = "Chat App" -> <<"C", "h", "a", "t", " ", "A", "p", "p">>
      [] str = "Engineer" -> <<"E", "n", "g", "i", "n", "e", "e", "r">>
      [] str = "Lead"     -> <<"L", "e", "a", "d">>
      [] str = "Acme"     -> <<"A", "c", "m", "e">>
      [] str = "C\\A"     -> <<"C", "\\", "A">>
      [] str = "50%"      -> <<"5", "0", "%">>
      [] str = "Go"       -> <<"G", "o">>
      [] str = "React"    -> <<"R", "e", "a", "c", "t">>
      [] str = "Rust"     -> <<"R", "u", "s", "t">>

\* str.lower() and SQL lower(), one character
LowerChar(c) ==
    CASE c = "A" -> "a"
      [] c = "C" -> "c"
      [] c = "E" -> "e"
      [] c = "G" -> "g"
      [] c = "L" -> "l"
      [] c = "O" -> "o"
      [] c = "R" -> "r"
      [] OTHER -> c

lower(str) == [i \in DOMAIN str |-> LowerChar(str[i])]

\* Python's `sub in str`
Contains(str, sub) ==
    \E i \in 0..(Len(str) - Len(sub)) : SubSeq(str, i + 1, i + Len(sub)) = sub

\* str LIKE pattern in PostgreSQL: % matches any run of characters, _ any one
\* character, and a backslash takes the character after it literally
RECURSIVE like(_, _)
like(str, pattern) ==
    IF pattern = <<>> THEN str = <<>>
    ELSE IF pattern[1] = "%"
         THEN like(str, Tail(pattern)) \/ (str # <<>> /\ like(Tail(str), pattern))
    ELSE IF pattern[1] = "\\"
         THEN /\ Len(pattern) >= 2
              /\ str # <<>>
              /\ str[1] = pattern[2]
              /\ like(Tail(str), Tail(Tail(pattern)))
    ELSE IF pattern[1] = "_"
         THEN str # <<>> /\ like(Tail(str), Tail(pattern))
    ELSE str # <<>> /\ str[1] = pattern[1] /\ like(Tail(str), Tail(pattern))

\* func.lower(column).like(search_term): NULL LIKE ... is not true
ColumnLike(value, search_term) ==
    value # NULL /\ like(lower(Chars(value)), search_term)

\* the orders in which .all() may return the rows: the query has no ORDER BY
query_all(rows) ==
    { f \in [1..Cardinality(rows) -> rows] : \A i, j \in DOMAIN f : i # j => f[i] # f[j] }

\* results.sort(key=lambda x: x.relevance_score, reverse=True): the sort is
\* stable; relevance_score is held in tenths (10 is 1.0, 15 is 1.5)
sort(results) ==
    SelectSeq(results, LAMBDA x : x.relevance_score = 15) \o
    SelectSeq(results, LAMBDA x : x.relevance_score = 10)

\* the SearchResult of a row whose title-bearing column is `title`
SearchResult(type, row, title, q) ==
    [type |-> type, id |-> row.id,
     relevance_score |-> IF title # NULL /\ Contains(lower(Chars(title)), lower(q))
                         THEN 15 ELSE 10]

search_content(s) ==
    /\ At(s, "search_content", "check")
    /\ LET q == sess[s].body.q
           search_term == <<"%">> \o lower(q) \o <<"%">>
           projects == { r \in Visible(s, "projects") :
                           \/ ColumnLike(r.name, search_term)
                           \/ ColumnLike(r.description, search_term) }
           work_experiences == { r \in Visible(s, "work_experience") :
                                   \/ ColumnLike(r.position, search_term)
                                   \/ ColumnLike(r.description, search_term)
                                   \/ ColumnLike(r.company, search_term) }
       IN  \E ps \in query_all(projects), ws \in query_all(work_experiences) :
             LET results ==
                   [i \in DOMAIN ps |-> SearchResult("project", ps[i], ps[i].name, q)] \o
                   [i \in DOMAIN ws |->
                       SearchResult("work_experience", ws[i], ws[i].position, q)]
             IN  sess' = [sess EXCEPT ![s] =
                            [Respond(sess[s], 200) EXCEPT !.result = {sort(results)}]]
    /\ UNCHANGED <<db, seq, clock>>

(* --------------------------- GET /projects ---------------------------- *)

\* `if skill:` and `if status:`: a parameter that is absent or empty is not
\* a filter
truthy(o, empty) == o # None /\ The(o) # empty

\* a filter that compares the name as it is stored
name_matches_exact(name, skill) == Chars(name) = skill

\* func.lower(Skill.name) == skill.lower()
name_matches(name, skill) == lower(Chars(name)) = lower(skill)

\* Query.all() of one mapped entity: an object the rows repeat is returned
\* once, where the rows have it first
unique(rows) ==
    LET first == { i \in DOMAIN rows : \A j \in 1..(i - 1) : rows[j] # rows[i] }
    IN  [n \in 1..Cardinality(first) |->
            rows[CHOOSE i \in first : Cardinality({ j \in first : j <= i }) = n]]

\* db.query(Project), joined to the skills through project_skills when the
\* skill filter is set: one row for every project_skills row of the project
\* whose skill passes the filter
get_projects_query(s) ==
    /\ At(s, "get_projects", "check")
    /\ LET skill == sess[s].body.skill
           status == sess[s].body.status
           query == IF truthy(skill, <<>>)
                    THEN { [project |-> p, link |-> l] :
                             p \in Visible(s, "projects"),
                             l \in { l \in db.project_skills :
                                       \E k \in Visible(s, "skills") :
                                          /\ l.skill_id = k.id
                                          /\ name_matches(k.name, The(skill)) } }
                    ELSE { [project |-> p] : p \in Visible(s, "projects") }
           joined == { row \in query :
                         truthy(skill, <<>>) => row.link.project_id = row.project.id }
           filtered == { row \in joined :
                           truthy(status, "") => row.project.status = The(status) }
       IN  \E f \in query_all(filtered) :
             LET projects == unique([i \in DOMAIN f |-> f[i].project])
             IN  sess' = [sess EXCEPT ![s] =
                            IF projects = <<>>
                            THEN [Respond(sess[s], 200) EXCEPT !.result = { <<>> }]
                            ELSE [sess[s] EXCEPT !.pc = "load", !.k = 1,
                                                 !.pend = projects]]
    /\ UNCHANGED <<db, seq, clock>>

\* the response is built from the objects: the skills of each project are
\* loaded when they are first read, one SELECT for each project
get_projects_load(s) ==
    /\ At(s, "get_projects", "load")
    /\ LET k == sess[s].k
           loaded == [sess[s].pend EXCEPT ![k] = ProjectResponse(s, @)]
       IN  sess' = [sess EXCEPT ![s] =
                      IF k = Len(loaded)
                      THEN [Respond(sess[s], 200) EXCEPT !.result = { loaded }]
                      ELSE [sess[s] EXCEPT !.k = k + 1, !.pend = loaded]]
    /\ UNCHANGED <<db, seq, clock>>

get_projects(s) ==
    \/ get_projects_query(s)
    \/ get_projects_load(s)

(* ------- GET /education, /work-experience, /skills, /social-links ------ *)

\* the endpoints declared without Depends(verify_credentials)
ReadOps ==
    { "health_check", "read_profile", "read_education", "read_work_experience",
      "get_projects", "read_project", "read_skills", "get_top_skills",
      "read_social_links", "search_content" }

\* profile = db.query(Profile).first()
read_check(s, op) ==
    /\ At(s, op, "check")
    /\ IF Visible(s, "profiles") = {}
       THEN Finish(s, 404)
       ELSE \E profile \in Visible(s, "profiles") :
              sess' = [sess EXCEPT ![s].pc = "load", ![s].pid = profile.id]
    /\ UNCHANGED <<db, seq, clock>>

\* return profile.<collection>: the relationship is loaded when it is read,
\* a second SELECT, of the rows whose profile_id is that of the profile
read_load(s, op, T) ==
    /\ At(s, op, "load")
    /\ \E f \in query_all({ r \in Visible(s, T) : r.profile_id = sess[s].pid }) :
         sess' = [sess EXCEPT ![s] = [Respond(sess[s], 200) EXCEPT !.result = { f }]]
    /\ UNCHANGED <<db, seq, clock>>

read_education(s) ==
    \/ read_check(s, "read_education")
    \/ read_load(s, "read_education", "education")

read_work_experience(s) ==
    \/ read_check(s, "read_work_experience")
    \/ read_load(s, "read_work_experience", "work_experience")

read_skills(s) ==
    \/ read_check(s, "read_skills")
    \/ read_load(s, "read_skills", "skills")

read_social_links(s) ==
    \/ read_check(s, "read_social_links")
    \/ read_load(s, "read_social_links", "social_links")

(* ---------------------------- GET /health ----------------------------- *)

\* check_db_connection() opens a connection of its own and runs SELECT 1;
\* any exception makes it False
check_db_connection == {TRUE, FALSE}

\* HealthResponse: no session, no table is read
health_check(s) ==
    /\ At(s, "health_check", "check")
    /\ \E connected \in check_db_connection :
         sess' = [sess EXCEPT ![s] =
                    [Respond(sess[s], 200) EXCEPT !.result =
                        { [status |-> "healthy", timestamp |-> clock + 1,
                           database |-> IF connected THEN "connected"
                                        ELSE "disconnected",
                           version |-> "1.0.0"] }]]
    /\ UNCHANGED <<db, seq, clock>>

(* ----------------------------- requests ------------------------------- *)

\* the scalar fields of a body: one caller fills in every field, the other
\* leaves phone, location and bio out, which default to None
ProfileBase ==
    { [name |-> "Ann", email |-> "a@x.io", phone |-> "+1 555",
       location |-> "Paris", bio |-> "Dev"],
      [name |-> "Bob", email |-> "b@x.io", phone |-> NULL,
       location |-> NULL, bio |-> NULL] }

EducationLists ==
    Lists(EducationCreate) \cup { <<e, e>> : e \in EducationCreate }
WorkExperienceLists == Lists(WorkExperienceCreate)
SkillLists ==
    { <<>>, <<[name |-> "Go", level |-> NULL]>>,
      <<[name |-> "Go", level |-> NULL], [name |-> "React", level |-> NULL]>> }
ProjectLists == Lists(ProjectCreate)
SocialLinkLists == Lists(SocialLinkCreate)

\* the child lists of a body drawn from `options`, `default` standing for a
\* field that is not supplied and `empty` for a supplied empty list: one
\* collection supplied, or skills and projects, or all five
Collections(default, empty, options) ==
    LET all == [education : options.education,
                work_experience : options.work_experience,
                projects : options.projects,
                skills : options.skills,
                social_links : options.social_links]
        supplied(c) == { T \in ChildTables : c[T] # default }
        full(c) == \A T \in ChildTables : c[T] # default /\ c[T] # empty
        chosen(c) == \/ Cardinality(supplied(c)) <= 1
                     \/ supplied(c) = {"skills", "projects"}
                     \/ full(c)
    IN  { c \in all : chosen(c) }

WithBase(base, c) ==
    [name |-> base.name, email |-> base.email, phone |-> base.phone,
     location |-> base.location, bio |-> base.bio,
     education |-> c.education, work_experience |-> c.work_experience,
     projects |-> c.projects, skills |-> c.skills, social_links |-> c.social_links]

\* the bodies of POST /profile: a list that is not supplied defaults to []
ProfileCreate ==
    { WithBase(base, c) :
        base \in ProfileBase,
        c \in Collections(<<>>, <<>>,
                          [education |-> EducationLists,
                           work_experience |-> WorkExperienceLists,
                           projects |-> ProjectLists,
                           skills |-> SkillLists,
                           social_links |-> SocialLinkLists]) }

\* the bodies of PUT /profile: a list that is not supplied defaults to None
ProfileUpdate ==
    { WithBase(base, c) :
        base \in ProfileBase,
        c \in Collections(None, Some(<<>>),
                          [education |-> Optional(EducationLists),
                           work_experience |-> Optional(WorkExperienceLists),
                           projects |-> Optional(ProjectLists),
                           skills |-> Optional(SkillLists),
                           social_links |-> Optional(SocialLinkLists)]) }

\* the bodies of PUT /{child}/{id}: the fields the caller set
EducationUpdate == { [degree |-> "MS"] }
WorkExperienceUpdate == { [position |-> "Lead"] }
SkillUpdate == { [name |-> "Rust"] }
SocialLinkUpdate == { [url |-> "https://github.com/y"] }
ProjectUpdate ==
    { [fields |-> <<>>, skill_ids |-> o] : o \in Optional(SkillIdLists) } \cup
    { [fields |-> [status |-> "completed"], skill_ids |-> None] }

\* the ids a caller may put in the path
PathIds == {1, 2}

Req(op, ids, bodies) == [op : {op}, id : ids, body : bodies]

Requests ==
    Req("read_profile", {0}, {NoBody}) \cup
    Req("read_project", PathIds, {NoBody}) \cup
    Req("create_profile", {0}, { b \in ProfileCreate : b.email = "a@x.io" }) \cup
    Req("update_profile", {0}, { b \in ProfileUpdate : b.email = "b@x.io" }) \cup
    Req("delete_profile", {0}, {NoBody}) \cup
    Req("create_education", {0}, EducationCreate) \cup
    Req("create_work_experience", {0}, WorkExperienceCreate) \cup
    Req("create_project", {0}, ProjectCreate) \cup
    Req("create_skill", {0}, SkillCreate) \cup
    Req("create_social_link", {0}, SocialLinkCreate) \cup
    Req("update_education", PathIds, EducationUpdate) \cup
    Req("update_work_experience", PathIds, WorkExperienceUpdate) \cup
    Req("update_project", PathIds, ProjectUpdate) \cup
    Req("update_skill", PathIds, SkillUpdate) \cup
    Req("update_social_link", PathIds, SocialLinkUpdate) \cup
    Req("delete_education", PathIds, {NoBody}) \cup
    Req("delete_work_experience", PathIds, {NoBody}) \cup
    Req("delete_project", PathIds, {NoBody}) \cup
    Req("delete_skill", PathIds, {NoBody}) \cup
    Req("delete_social_link", PathIds, {NoBody})

(* --------------------------- specifications --------------------------- *)

\* the database seed.py leaves on an empty schema, its lists cut to one or
\* two rows each: the profile, its children, and the skills of its project
seed_database ==
    [profiles |-> { Profile(1, [name |-> "Ann", email |-> "a@x.io", phone |-> "+1 555",
                                location |-> "Paris", bio |-> "Dev"], 0, 0) },
     education |-> { Education(1, 1, [institution |-> "MIT", degree |-> "BS",
                                      gpa |-> NULL]) },
     work_experience |-> { WorkExperience(1, 1, [company |-> "Acme",
                              position |-> "Engineer", description |-> NULL]) },
     skills |-> { Skill(1, 1, [name |-> "Go", level |-> NULL]),
                  Skill(2, 1, [name |-> "React", level |-> NULL]) },
     projects |-> { Project(1, 1, [name |-> "Chat App", description |-> NULL,
                                   status |-> NULL]) },
     social_links |-> { SocialLink(1, 1, [platform |-> "github",
                                          url |-> "https://github.com/x"]) },
     project_skills |-> Stored({}, { project_skills(1, 1) })]

\* the next id of every table follows the rows it holds
SeqOf(d) ==
    [T \in Tables \ {"project_skills"} |-> Cardinality(d[T])]

\* the service starts on the empty schema or on the seeded database
InitConc ==
    /\ db \in {EmptyDb, seed_database}
    /\ seq = SeqOf(db)
    /\ clock = 0
    /\ sess = [s \in Sessions |-> Idle]

\* the tables two POST /profile leave when both pass the existence check
\* before either commits (a behaviour of SpecConc): a second profile, here
\* with one skill, beside the first
raced_database ==
    [seed_database EXCEPT
       !.profiles = { Profile(1, [name |-> "Ann", email |-> "a@x.io",
                                  phone |-> "+1 555", location |-> "Paris",
                                  bio |-> "Dev"], 1, 1),
                      Profile(2, [name |-> "Bob", email |-> "b@x.io",
                                  phone |-> NULL, location |-> NULL,
                                  bio |-> NULL], 1, 1) },
       !.skills = @ \cup { Skill(3, 2, [name |-> "Go", level |-> NULL]) }]

\* requests served one at a time find the tables in any state the service
\* can have left them in
Init ==
    /\ db \in {EmptyDb, seed_database, raced_database}
    /\ seq = SeqOf(db)
    /\ clock = 0
    /\ sess = [s \in Sessions |-> Idle]

Handle(s) ==
       read_profile(s)
    \/ create_profile(s)
    \/ update_profile(s)
    \/ delete_profile(s)
    \/ create_education(s)
    \/ update_education(s)
    \/ delete_education(s)
    \/ create_work_experience(s)
    \/ update_work_experience(s)
    \/ delete_work_experience(s)
    \/ create_project(s)
    \/ update_project(s)
    \/ delete_project(s)
    \/ create_skill(s)
    \/ update_skill(s)
    \/ delete_skill(s)
    \/ create_social_link(s)
    \/ update_social_link(s)
    \/ delete_social_link(s)
    \/ refresh(s)

\* the response is out and get_db closes the session
Close(s) ==
    /\ sess[s].pc = "done"
    /\ sess' = [sess EXCEPT ![s] = Idle]
    /\ UNCHANGED <<db, seq, clock>>

\* one request at a time
Next ==
    \/ Arrive("s1", Requests, Credentials, MaxRequests, db)
    \/ Handle("s1")
    \/ read_project("s1")
    \/ Close("s1")

Spec == Init /\ [][Next]_vars

\* the requests raced against each other: the profile endpoints, and of the
\* child endpoints, which share their statements, those that write a child row
\* or a project_skills row or take one away
ConcRequests ==
    LET bare(b, default) == \A T \in ChildTables : b[T] = default
        linked(b, default, skills, projects) ==
            /\ b.skills = skills
            /\ b.projects = projects
            /\ \A T \in ChildTables \ {"skills", "projects"} : b[T] = default
        go == <<[name |-> "Go", level |-> NULL]>>
        chat(ids) == <<[name |-> "Chat App", description |-> NULL,
                        status |-> NULL, skill_ids |-> ids]>>
    IN  { r \in Requests :
            CASE r.op = "create_profile" ->
                   \/ bare(r.body, <<>>)
                   \/ linked(r.body, <<>>, go, chat(<<1>>))
              [] r.op = "update_profile" ->
                   \/ bare(r.body, None)
                   \/ linked(r.body, None, Some(go), Some(chat(<<1>>)))
              [] r.op = "create_project" -> r.body.skill_ids \in {<<>>, <<1, 1>>}
              [] r.op = "update_project" ->
                   r.id = 1 /\ r.body.skill_ids = Some(<<1, 2>>)
              [] r.op \in {"read_profile", "delete_profile", "create_education",
                           "update_skill", "delete_skill", "delete_project"} ->
                   r.id \in {0, 1}
              [] OTHER -> FALSE }
      \cup Req("create_profile", {0},
                { b \in ProfileCreate :
                    \/ b.email = "b@x.io" /\ bare(b, <<>>)
                    \/ b.email = "b@x.io" /\ linked(b, <<>>, go, <<>>)
                    \/ /\ b.email = "a@x.io"
                       /\ Len(b.education) = 1 /\ Len(b.skills) = 2
                       /\ b.projects = chat(<<1>>) })

\* requests of two clients, both with the configured credentials, interleave
\* statement by statement; no snapshot is kept with a request that runs beside
\* another
NextConc ==
    \E s \in Sessions :
        \/ Arrive(s, ConcRequests, { c \in Credentials : verify_credentials(c) },
                  MaxConcRequests, EmptyDb)
        \/ Handle(s)
        \/ Close(s)

SpecConc == InitConc /\ [][NextConc]_vars

\* the values of ?limit= that pass Query(10, ge=1, le=50)
Limits == {1, 2, 50}

\* the characters of ?q=: letters in both cases, the LIKE wildcards and the
\* LIKE escape character
QueryChars == {"a", "C", "%", "_", "\\"}

\* the values of ?q= that pass Query(..., min_length=1)
Queries == { <<c>> : c \in QueryChars } \cup { <<c, d>> : c, d \in QueryChars }

\* the values of ?skill=: absent, empty, a skill name in three spellings, a
\* prefix of it, and another name
SkillFilters ==
    Optional({ <<>>, <<"g", "o">>, <<"G", "O">>, <<"G", "o">>, <<"G">>,
               <<"r", "e", "a", "c", "t">> })

\* the values of ?status=: absent, empty, a status, and the same in capitals
StatusFilters == Optional({ "", "completed", "COMPLETED" })

\* the queries, and the writes that shape the tables they read: projects
\* (one of them with a backslash and a percent sign in its text), skills,
\* project_skills rows and work experience
ReadRequests ==
    Req("health_check", {0}, {NoBody}) \cup
    Req("read_profile", {0}, {NoBody}) \cup
    Req("read_education", {0}, {NoBody}) \cup
    Req("read_work_experience", {0}, {NoBody}) \cup
    Req("read_skills", {0}, {NoBody}) \cup
    Req("read_social_links", {0}, {NoBody}) \cup
    Req("read_project", PathIds, {NoBody}) \cup
    Req("get_top_skills", {0}, [limit : Limits]) \cup
    Req("search_content", {0}, [q : Queries]) \cup
    Req("get_projects", {0}, [skill : SkillFilters, status : StatusFilters]) \cup
    Req("create_project", {0},
        { b \in ProjectCreate : b.skill_ids \in {<<>>, <<1, 2>>} } \cup
        { [name |-> "C\\A", description |-> "50%", status |-> NULL, skill_ids |-> <<2>>] }) \cup
    Req("update_project", {1},
        { b \in ProjectUpdate : b.skill_ids \in {Some(<<>>), Some(<<1, 2>>)} } \cup
        { [fields |-> [status |-> "completed"], skill_ids |-> Some(<<1, 3>>)] }) \cup
    Req("delete_project", {1}, {NoBody}) \cup
    Req("create_skill", {0}, { k \in SkillCreate : k.name = "Go" }) \cup
    Req("delete_skill", {1}, {NoBody}) \cup
    Req("create_work_experience", {0}, WorkExperienceCreate)

HandleRead(s) ==
       health_check(s)
    \/ read_profile(s)
    \/ read_education(s)
    \/ read_work_experience(s)
    \/ read_skills(s)
    \/ read_social_links(s)
    \/ read_project(s)
    \/ get_top_skills(s)
    \/ search_content(s)
    \/ get_projects(s)
    \/ create_project(s)
    \/ update_project(s)
    \/ delete_project(s)
    \/ create_skill(s)
    \/ delete_skill(s)
    \/ create_work_experience(s)
    \/ refresh(s)

\* the client that got the response of a GET sends the same request again,
\* on a session of its own
Repeat(s, first) ==
    /\ sess[s].pc = "idle"
    /\ sess[first].pc = "done"
    /\ sess[first].op \in ReadOps
    /\ sess' = [sess EXCEPT ![s] =
                  [Idle EXCEPT !.pc = "check", !.op = sess[first].op,
                               !.id = sess[first].id, !.body = sess[first].body,
                               !.pre = db]]
    /\ UNCHANGED <<db, seq, clock>>

\* queries served one at a time, after the writes that shape the tables; a
\* query may be sent twice in a row
NextRead ==
    \/ Arrive("s1", ReadRequests, { c \in Credentials : verify_credentials(c) },
              MaxReadRequests, db)
    \/ HandleRead("s1")
    \/ sess["s2"].pc = "idle" /\ Close("s1")
    \/ Repeat("s2", "s1")
    \/ HandleRead("s2")
    \/ Close("s2")

SpecRead == Init /\ [][NextRead]_vars

\* the GETs of a child collection
ChildReads ==
    { "read_education", "read_work_experience", "read_skills",
      "read_social_links", "get_projects" }

\* a PUT /profile that replaces the education, or the skills and the
\* projects, or all five collections, and the GETs of the collections
RaceRequests ==
    LET supplied(b) == { T \in ChildTables : b[T] # None }
        replaces(b) ==
            \/ supplied(b) = {"education"} /\ Len(The(b.education)) = 2
            \/ /\ supplied(b) \in { {"skills", "projects"}, ChildTables }
               /\ \A T \in supplied(b) : Len(The(b[T])) = 1
               /\ The(b.projects)[1].skill_ids = <<1, 2>>
    IN  { r \in Requests : r.op = "update_profile" /\ replaces(r.body) } \cup
        { r \in ReadRequests :
            /\ r.op \in ChildReads
            /\ r.op = "get_projects" => r.body = [skill |-> None, status |-> None] }

\* one client replaces collections with PUT /profile while another reads
\* them: the statements of the two sessions interleave
NextRace ==
    \/ Arrive("s1", { r \in RaceRequests : r.op \in WriteOps },
              { c \in Credentials : verify_credentials(c) }, MaxRaceRequests, db)
    \/ update_profile("s1")
    \/ refresh("s1")
    \/ Close("s1")
    \/ Arrive("s2", { r \in RaceRequests : r.op \in ReadOps },
              { c \in Credentials : verify_credentials(c) }, MaxRaceRequests, db)
    \/ read_education("s2")
    \/ read_work_experience("s2")
    \/ read_skills("s2")
    \/ read_social_links("s2")
    \/ get_projects("s2")
    \/ Close("s2")

SpecRace == InitConc /\ [][NextRace]_vars

(* ------------------------------ seed.py ------------------------------- *)

\* the rows seed.py builds, its lists cut to one or two rows each; the names
\* of the skills each project is associated with
seed_data ==
    [profile |-> [name |-> "Ann", email |-> "a@x.io", phone |-> "+1 555",
                  location |-> "Paris", bio |-> "Dev"],
     education_data |-> <<[institution |-> "MIT", degree |-> "BS", gpa |-> NULL]>>,
     work_data |-> <<[company |-> "Acme", position |-> "Engineer", description |-> NULL]>>,
     skills_data |-> <<[name |-> "Go", level |-> NULL], [name |-> "React", level |-> NULL]>>,
     projects_data |-> <<[name |-> "Chat App", description |-> NULL, status |-> NULL]>>,
     skills |-> <<{"Go"}>>,
     social_data |-> <<[platform |-> "github", url |-> "https://github.com/x"]>>]

\* a statement may fail for a reason of the connection (OperationalError)
Failures == {"none", "OperationalError"}

\* except Exception: db.rollback(); raise; finally: db.close(): what the
\* session has flushed is discarded and the script ends with the exception
Rollback(s, exception) ==
    sess' = [sess EXCEPT ![s] = [Respond(sess[s], 1) EXCEPT !.error = exception]]

\* python seed.py: init_db(); seed_database()
RunSeed(s) ==
    /\ sess[s].pc = "idle"
    /\ seq.profiles + Cardinality({ t \in Sessions : InFlight(t) }) < MaxSeedRuns
    /\ sess' = [sess EXCEPT ![s] =
                  [Idle EXCEPT !.pc = "check", !.op = "seed_database", !.pre = db]]
    /\ UNCHANGED <<db, seq, clock>>

\* a seed script that inserts whatever the query returned
seed_check_ignored(s) ==
    /\ At(s, "seed_database", "check")
    /\ Goto(s, "insert")
    /\ UNCHANGED <<db, seq, clock>>

\* existing_profile = db.query(Profile).first(); if existing_profile: return
seed_check(s) ==
    /\ At(s, "seed_database", "check")
    /\ IF Visible(s, "profiles") # {}
       THEN sess' = [sess EXCEPT ![s] =
                       [Respond(sess[s], 0) EXCEPT !.result = {"skipped"}]]
       ELSE Goto(s, "insert")
    /\ UNCHANGED <<db, seq, clock>>

\* db.add(profile); db.flush()
seed_profile(s) ==
    /\ At(s, "seed_database", "insert")
    /\ ~EmailHeldByOther(s, seed_data.profile.email)
    /\ LET id == seq.profiles + 1
           profile == Profile(id, seed_data.profile, clock + 1, clock + 1)
       IN  /\ seq' = [seq EXCEPT !.profiles = id]
           /\ IF \E p \in db.profiles : p.email = profile.email
              THEN Rollback(s, "IntegrityError")
              ELSE \E failure \in Failures :
                     IF failure # "none"
                     THEN Rollback(s, failure)
                     ELSE sess' = [sess EXCEPT ![s].pc = "children", ![s].pid = id,
                                               ![s].ins.profiles = {profile}]
    /\ UNCHANGED <<db, clock>>

\* db.add_all(education_data); db.add_all(work_data); db.add_all(skills_data);
\* db.flush()
seed_children(s) ==
    /\ At(s, "seed_database", "children")
    /\ seq' = [seq EXCEPT !.education = @ + Len(seed_data.education_data),
                          !.work_experience = @ + Len(seed_data.work_data),
                          !.skills = @ + Len(seed_data.skills_data)]
    /\ \E failure \in Failures :
         IF failure # "none"
         THEN Rollback(s, failure)
         ELSE sess' = [sess EXCEPT
                  ![s].pc = "projects",
                  ![s].ins.education =
                      NewRows("education", sess[s].pid, seed_data.education_data),
                  ![s].ins.work_experience =
                      NewRows("work_experience", sess[s].pid, seed_data.work_data),
                  ![s].ins.skills = NewRows("skills", sess[s].pid, seed_data.skills_data)]
    /\ UNCHANGED <<db, clock>>

\* db.add_all(projects_data); db.flush()
seed_projects(s) ==
    /\ At(s, "seed_database", "projects")
    /\ seq' = [seq EXCEPT !.projects = @ + Len(seed_data.projects_data)]
    /\ \E failure \in Failures :
         IF failure # "none"
         THEN Rollback(s, failure)
         ELSE sess' = [sess EXCEPT
                  ![s].pc = "commit", ![s].k = seq.projects,
                  ![s].ins.projects =
                      NewRows("projects", sess[s].pid, seed_data.projects_data)]
    /\ UNCHANGED <<db, clock>>

\* projects_data[i].skills.extend(the skills_data of the listed names);
\* db.add_all(social_data); db.commit()
seed_commit(s) ==
    /\ At(s, "seed_database", "commit")
    /\ seq' = [seq EXCEPT !.social_links = @ + Len(seed_data.social_data)]
    /\ LET extend(i) == { k \in sess[s].ins.skills : k.name \in seed_data.skills[i] }
           links == UNION { { project_skills(sess[s].k + i, k.id) : k \in extend(i) } :
                            i \in DOMAIN seed_data.skills }
           last == [EmptyDb EXCEPT
                      !.project_skills = links,
                      !.social_links =
                          NewRows("social_links", sess[s].pid, seed_data.social_data)]
       IN  \E failure \in Failures :
             IF failure # "none"
             THEN /\ Rollback(s, failure)
                  /\ db' = db
                  /\ clock' = clock
             ELSE /\ db' = Committed(db, sess[s], last)
                  /\ sess' = [sess EXCEPT ![s] =
                                 [Respond(sess[s], 0) EXCEPT !.result = {"seeded"}]]
                  /\ clock' = clock + 1

seed(s) ==
    \/ seed_check(s)
    \/ seed_profile(s)
    \/ seed_children(s)
    \/ seed_projects(s)
    \/ seed_commit(s)

\* the seed script is run, again and again, by one operator or by two at once
NextSeed ==
    \E s \in Sessions :
        \/ RunSeed(s)
        \/ seed(s)
        \/ Close(s)

SpecSeed == InitConc /\ [][NextSeed]_vars

(* ------------------------------ properties ---------------------------- *)

\* C1: with requests served one at a time, an authenticated POST /profile
\* answers 400 and leaves every table as it was when a profile exists; when
\* none exists it answers 201 and stores the profile of the body, which is
\* what a GET /profile on those tables returns with 200.
C1_CreateProfile ==
    LET r == sess["s1"]
    IN  /\ (r.pc = "done" /\ r.op = "create_profile" /\ r.status # 401) =>
             IF r.pre.profiles # {}
             THEN r.status = 400 /\ db = r.pre
             ELSE /\ r.status = 201
                  /\ \E p \in db.profiles :
                       /\ db.profiles = {p}
                       /\ p = Profile(r.pid, r.body, p.created_at, p.updated_at)
        /\ (r.pc = "done" /\ r.op = "read_profile" /\ r.pre.profiles # {}) =>
             /\ r.status = 200
             /\ db = r.pre
             /\ r.result # {}
             /\ r.result \subseteq { ProfileResponse("s1", p) : p \in db.profiles }

\* a GET /profile returns a profile that a POST /profile created after a
\* DELETE /profile had removed the earlier one
C1_Witness ==
    LET r == sess["s1"]
    IN  /\ r.pc = "done" /\ r.op = "read_profile" /\ r.status = 200
        /\ \E g \in r.result : g.profile.created_at > 1 /\ g.profile.id > 1

\* C2: whatever the interleaving of concurrent requests, the profiles table
\* holds at most one row.
C2_AtMostOneProfile == Cardinality(db.profiles) <= 1

\* two POST /profile have both committed
C2_Witness == db = raced_database

\* C3: after a successful POST /profile the new profile has as many education,
\* work experience, skill and social link rows as the body lists, and each
\* project of the body is linked to the skills whose ids are both in its
\* skill_ids and among the ids of the skills the same call inserted.
C3_CreateProfileChildren ==
    LET r == sess["s1"]
        of(T) == { x \in db[T] : x.profile_id = r.pid }
        linked(id) == { l.skill_id : l \in { l \in db.project_skills : l.project_id = id } }
        first == seq.projects - Len(r.body.projects)
    IN  (r.pc = "done" /\ r.op = "create_profile" /\ r.status = 201) =>
          /\ Cardinality(of("education")) = Len(r.body.education)
          /\ Cardinality(of("work_experience")) = Len(r.body.work_experience)
          /\ Cardinality(of("skills")) = Len(r.body.skills)
          /\ Cardinality(of("social_links")) = Len(r.body.social_links)
          /\ \A i \in DOMAIN r.body.projects :
               /\ first + i \in Ids(of("projects"))
               /\ linked(first + i) =
                    Range(r.body.projects[i].skill_ids) \cap Ids(of("skills"))

\* a POST /profile with two education rows and a project that names one
\* skill of the call and one id of no skill has succeeded
C3_Witness ==
    LET r == sess["s1"]
    IN  /\ r.pc = "done" /\ r.op = "create_profile" /\ r.status = 201
        /\ \/ Len(r.body.education) = 2
           \/ \E i \in DOMAIN r.body.projects :
                /\ Range(r.body.projects[i].skill_ids) \cap Ids(db.skills) # {}
                /\ Range(r.body.projects[i].skill_ids) \ Ids(db.skills) # {}

\* C4: a successful PUT /profile whose body omits a collection leaves the
\* rows of that collection as they were before the call, whatever the body
\* carries for the other collections.
C4_OmittedUnchanged ==
    LET r == sess["s1"]
    IN  (r.pc = "done" /\ r.op = "update_profile" /\ r.status = 200) =>
          \A T \in ChildTables : r.body[T] = None => db[T] = r.pre[T]

\* a PUT /profile has replaced the skills and left out the education, of
\* which there are rows
C4_Witness ==
    LET r == sess["s1"]
    IN  /\ r.pc = "done" /\ r.op = "update_profile" /\ r.status = 200
        /\ r.body.education = None /\ r.pre.education # {}
        /\ r.body.skills # None /\ db.skills # r.pre.skills

\* C5: after a successful PUT /profile whose body carries a collection as a
\* list, none of the rows the profile had in that collection before the call
\* remains, and its rows are one new row per element of the list, in the
\* order of the list, with the values of the element.
C5_Replaced ==
    LET r == sess["s1"]
        of(d, T) == { x \in d[T] : x.profile_id = r.pid }
    IN  (r.pc = "done" /\ r.op = "update_profile" /\ r.status = 200) =>
          \A T \in ChildTables : r.body[T] # None =>
             LET list == The(r.body[T])
                 first == seq[T] - Len(list)
             IN  /\ of(db, T) = { NewRow(T, first + i, r.pid, list[i]) : i \in 1..Len(list) }
                 /\ Cardinality(of(db, T)) = Len(list)
                 /\ of(r.pre, T) \cap db[T] = {}
                 /\ Ids(of(db, T)) \cap Ids(r.pre[T]) = {}

\* a PUT /profile has replaced the education rows of a profile that had some
\* by the two of its list
C5_Witness ==
    LET r == sess["s1"]
    IN  /\ r.pc = "done" /\ r.op = "update_profile" /\ r.status = 200
        /\ r.body.education # None /\ Len(The(r.body.education)) = 2
        /\ \E x \in r.pre.education : x.profile_id = r.pid

\* C6, as claimed: after a PUT /profile that carries a projects list, a project
\* of the list is linked to no skill but those the same request inserted, and
\* the request fails only when another profile holds its email.
C6_OnlyInsertedSkillsLinked ==
    LET r == sess["s1"]
        linked(id) == { l.skill_id : l \in { l \in db.project_skills : l.project_id = id } }
        inserted == IF r.body.skills = None THEN {}
                    ELSE { seq.skills - Len(The(r.body.skills)) + j :
                             j \in 1..Len(The(r.body.skills)) }
    IN  (r.pc = "done" /\ r.op = "update_profile" /\ r.status \notin {401, 404}) =>
          /\ r.status # 200 => r.status = 500 /\ Cardinality(r.pre.profiles) > 1
          /\ (r.status = 200 /\ r.body.projects # None) =>
               \A i \in DOMAIN The(r.body.projects) :
                  linked(seq.projects - Len(The(r.body.projects)) + i) \subseteq inserted

\* C6, amended: after a successful PUT /profile that carries a projects list, a
\* project of the list is linked to the skills whose ids are in its skill_ids
\* and are ids of rows of the skills table when the project is added (the
\* skills the request inserted, and those it did not delete); an id of no
\* such row gives no link and no error: the request fails only when another
\* profile holds its email.
C6_StoredSkillsLinked ==
    LET r == sess["s1"]
        linked(id) == { l.skill_id : l \in { l \in db.project_skills : l.project_id = id } }
    IN  (r.pc = "done" /\ r.op = "update_profile" /\ r.status \notin {401, 404}) =>
          /\ r.status # 200 => r.status = 500 /\ Cardinality(r.pre.profiles) > 1
          /\ (r.status = 200 /\ r.body.projects # None) =>
               \A i \in DOMAIN The(r.body.projects) :
                  linked(seq.projects - Len(The(r.body.projects)) + i) =
                     Range(The(r.body.projects)[i].skill_ids) \cap Ids(db.skills)

\* a PUT /profile without a skills list has linked its project to a skill
\* stored before, and has passed over an id of no skill
C6_Witness ==
    LET r == sess["s1"]
    IN  /\ r.pc = "done" /\ r.op = "update_profile" /\ r.status = 200
        /\ r.body.skills = None /\ r.body.projects # None
        /\ \E i \in DOMAIN The(r.body.projects) :
             /\ Range(The(r.body.projects)[i].skill_ids) \cap Ids(r.pre.skills) # {}
             /\ Range(The(r.body.projects)[i].skill_ids) \ Ids(r.pre.skills) # {}
             /\ \E l \in db.project_skills :
                  l.project_id = seq.projects - Len(The(r.body.projects)) + i

\* C7: DELETE /profile answers 404 and changes nothing when there is no
\* profile; otherwise it answers 204, no row of a child table belongs to the
\* deleted profile, no project_skills row references one of its projects or
\* skills, and no profile is left for a GET /profile to find, which answers
\* 404.
C7_DeleteProfile ==
    LET r == sess["s1"]
        mine(T) == Ids({ x \in r.pre[T] : x.profile_id = r.pid })
    IN  (r.pc = "done" /\ r.op = "delete_profile" /\ r.status # 401) =>
          IF r.pre.profiles = {}
          THEN r.status = 404 /\ db = r.pre
          ELSE /\ r.status = 204
               /\ \A T \in ChildTables : \A x \in db[T] : x.profile_id # r.pid
               /\ \A l \in db.project_skills :
                    l.project_id \notin mine("projects") /\ l.skill_id \notin mine("skills")
               /\ db.profiles = {}

\* C8: every education, work experience, project, skill and social link row
\* has the id of a stored profile as its profile_id, also when a POST of a
\* child races a DELETE /profile.
C8_ChildrenHaveProfile ==
    \A T \in ChildTables : \A x \in db[T] : x.profile_id \in Ids(db.profiles)

\* a POST /education that had found the profile was refused its INSERT
\* because a DELETE /profile committed first
C8_Witness ==
    \E s \in Sessions :
        /\ sess[s].pc = "done" /\ sess[s].op = "create_education"
        /\ sess[s].status = 500
        /\ sess[s].pid \notin Ids(db.profiles)

\* C9: every project_skills row references a stored project and a stored
\* skill, and no two rows hold the same (project_id, skill_id), also when
\* skill_ids lists an id several times.
C9_Links ==
    \A l \in db.project_skills :
        /\ l.project_id \in Ids(db.projects)
        /\ l.skill_id \in Ids(db.skills)
        /\ l.copy = 1

\* a POST /projects whose skill_ids lists a stored skill twice has succeeded
\* and its project is linked
C9_Witness ==
    \E s \in Sessions :
        /\ sess[s].pc = "done" /\ sess[s].op = "create_project"
        /\ sess[s].status = 201
        /\ sess[s].body.skill_ids = <<1, 1>>
        /\ \E l \in db.project_skills : l.project_id = seq.projects /\ l.skill_id = 1

\* C10: a request to a write endpoint whose username or password is not the
\* configured one is answered 401 before the handler runs, whatever the
\* tables hold, and leaves them as they were; no other request is answered
\* 401.
C10_Unauthorized ==
    LET r == sess["s1"]
        differs == \/ r.credentials.username # ADMIN_USERNAME
                   \/ r.credentials.password # ADMIN_PASSWORD
    IN  /\ (r.pc # "idle" /\ r.op \in WriteOps /\ differs) =>
             r.pc = "done" /\ r.status = 401 /\ db = r.pre
        /\ (r.pc = "done" /\ r.status = 401) => r.op \in WriteOps /\ differs

\* a POST /profile with a wrong password was answered 401 although a profile
\* exists, where the handler would have answered 400
C10_Witness ==
    LET r == sess["s1"]
    IN  /\ r.pc = "done" /\ r.op = "create_profile" /\ r.status = 401
        /\ r.credentials.username = ADMIN_USERNAME
        /\ r.pre.profiles # {}

C12_LastCommitWins ==
    LET a == sess["s1"]
        b == sess["s2"]
        rows(T) == { x \in db[T] : x.profile_id = a.pid }
    IN  (/\ a.pc = "done" /\ a.op = "update_profile" /\ a.status = 200
         /\ b.pc = "done" /\ b.op = "update_profile" /\ b.status = 200
         /\ a.pid = b.pid) =>
          \A T \in ChildTables : (a.body[T] # None /\ b.body[T] # None) =>
             \E r \in {a, b} : Cardinality(rows(T)) = Len(The(r.body[T]))

\* two PUT /profile that each carried one skill have both committed and the
\* profile has the skill rows of both
C12_Witness ==
    LET a == sess["s1"]
        b == sess["s2"]
    IN  /\ a.pc = "done" /\ a.op = "update_profile" /\ a.status = 200
        /\ b.pc = "done" /\ b.op = "update_profile" /\ b.status = 200
        /\ a.body.skills # None /\ Len(The(a.body.skills)) = 1
        /\ b.body.skills # None /\ Len(The(b.body.skills)) = 1
        /\ Cardinality({ x \in db.skills : x.profile_id = a.pid }) = 2

\* C13: GET /skills/top?limit=N returns at most N rows; the project_count of
\* a row is the number of distinct projects project_skills links to its skill
\* (0 when there is none); the rows are in non-increasing order of
\* project_count; and no skill left out has a greater project_count than a
\* skill returned.
C13_TopSkills ==
    LET r == sess["s1"]
        count(id) == Cardinality({ l.project_id : l \in { l \in db.project_skills :
                                                            l.skill_id = id } })
    IN  (r.pc = "done" /\ r.op = "get_top_skills") =>
          /\ r.status = 200
          /\ \A res \in r.result :
               /\ Len(res) <= r.body.limit
               /\ \A i \in DOMAIN res :
                    /\ res[i].skill \in db.skills
                    /\ res[i].project_count = count(res[i].skill.id)
               /\ \A i, j \in DOMAIN res :
                    i < j => res[i].project_count >= res[j].project_count
               /\ \A k \in db.skills :
                    k \notin { res[i].skill : i \in DOMAIN res } =>
                       \A i \in DOMAIN res : count(k.id) <= res[i].project_count

\* GET /skills/top?limit=1 has returned the one skill linked to two projects
\* and left out a skill linked to fewer
C13_Witness ==
    LET r == sess["s1"]
    IN  /\ r.pc = "done" /\ r.op = "get_top_skills" /\ r.status = 200
        /\ r.body.limit = 1
        /\ Cardinality(db.skills) >= 2
        /\ \E res \in r.result : Len(res) = 1 /\ res[1].project_count = 2
        /\ \E l \in db.project_skills :
             \A res \in r.result : l.skill_id # res[1].skill.id

\* C14: GET /search?q=X returns one record for every project whose name or
\* description contains X whatever the case of the letters, and one for every
\* work experience whose position, description or company does; the
\* relevance_score of a record is 1.5 when X occurs in the title column (name,
\* position) and 1.0 otherwise; the records are in non-increasing order of
\* relevance_score.
C14_Search ==
    LET r == sess["s1"]
        has(value, q) == value # NULL /\ Contains(lower(Chars(value)), lower(q))
        records(res, type, id) == { i \in DOMAIN res : res[i].type = type /\ res[i].id = id }
    IN  (r.pc = "done" /\ r.op = "search_content") =>
          /\ r.status = 200
          /\ \A res \in r.result :
               /\ \A p \in db.projects :
                    (has(p.name, r.body.q) \/ has(p.description, r.body.q)) =>
                       Cardinality(records(res, "project", p.id)) = 1
               /\ \A w \in db.work_experience :
                    (\/ has(w.position, r.body.q) \/ has(w.description, r.body.q)
                     \/ has(w.company, r.body.q)) =>
                       Cardinality(records(res, "work_experience", w.id)) = 1
               /\ \A i \in DOMAIN res :
                    /\ res[i].type = "project" =>
                         \E p \in db.projects :
                            /\ p.id = res[i].id
                            /\ res[i].relevance_score = IF has(p.name, r.body.q) THEN 15 ELSE 10
                    /\ res[i].type = "work_experience" =>
                         \E w \in db.work_experience :
                            /\ w.id = res[i].id
                            /\ res[i].relevance_score =
                                 IF has(w.position, r.body.q) THEN 15 ELSE 10
               /\ \A i, j \in DOMAIN res :
                    i < j => res[i].relevance_score >= res[j].relevance_score

\* a GET /search whose query has a backslash has returned no record for a
\* project whose name contains the query
C14_Witness ==
    LET r == sess["s1"]
    IN  /\ r.pc = "done" /\ r.op = "search_content" /\ r.status = 200
        /\ \E i \in DOMAIN r.body.q : r.body.q[i] = "\\"
        /\ \E p \in db.projects :
             /\ Contains(lower(Chars(p.name)), lower(r.body.q))
             /\ \A res \in r.result : \A i \in DOMAIN res :
                  ~(res[i].type = "project" /\ res[i].id = p.id)

\* C20: whatever characters the query X is made of, '%' and '_' included,
\* GET /search?q=X returns a record for a project only if X is a substring of
\* its name or description, the case of letters aside, and for a work
\* experience only if X is a substring of its position, description or
\* company; a row has at most one record.
C20_LiteralSubstring ==
    LET r == sess["s1"]
        has(value, q) == value # NULL /\ Contains(lower(Chars(value)), lower(q))
    IN  (r.pc = "done" /\ r.op = "search_content" /\ r.status = 200) =>
          \A res \in r.result :
             /\ \A i \in DOMAIN res :
                  /\ res[i].type = "project" =>
                       \E p \in db.projects :
                          /\ p.id = res[i].id
                          /\ has(p.name, r.body.q) \/ has(p.description, r.body.q)
                  /\ res[i].type = "work_experience" =>
                       \E w \in db.work_experience :
                          /\ w.id = res[i].id
                          /\ \/ has(w.position, r.body.q) \/ has(w.description, r.body.q)
                             \/ has(w.company, r.body.q)
             /\ \A i, j \in DOMAIN res :
                  (res[i].type = res[j].type /\ res[i].id = res[j].id) => i = j

\* GET /search?q=_ has returned a project whose name and description hold no
\* underscore
C20_Witness ==
    LET r == sess["s1"]
    IN  /\ r.pc = "done" /\ r.op = "search_content" /\ r.status = 200
        /\ r.body.q = <<"_">>
        /\ \E res \in r.result : \E i \in DOMAIN res :
             /\ res[i].type = "project"
             /\ \E p \in db.projects : p.id = res[i].id /\ p.name = "Chat App"

\* C15: a successful PUT /{child}/{id} sets the fields its body carries to the
\* values it carries and leaves the other fields of the row, the other rows
\* of the table and the other tables as they were; the skill_ids of a
\* PUT /projects/{id} stand for the project_skills rows of that project.
C15_PartialUpdate ==
    LET r == sess["s1"]
        T == Refreshed(r.op)
        fields == IF r.op = "update_project" THEN r.body.fields ELSE r.body
        set(row) == [f \in DOMAIN row |-> IF f \in DOMAIN fields THEN fields[f] ELSE row[f]]
        others(d) == { l \in d.project_skills : l.project_id # r.id }
    IN  (/\ r.pc = "done" /\ r.status = 200
         /\ r.op \in {"update_education", "update_work_experience", "update_project",
                      "update_skill", "update_social_link"}) =>
          /\ \E row \in r.pre[T] :
               /\ row.id = r.id
               /\ db[T] = (r.pre[T] \ {row}) \cup {set(row)}
          /\ \A U \in (Tables \ {T, "project_skills"}) : db[U] = r.pre[U]
          /\ IF r.op = "update_project" /\ r.body.skill_ids # None
             THEN others(db) = others(r.pre)
             ELSE db.project_skills = r.pre.project_skills

\* a PUT /education/{id} that carries only the degree has changed the degree
\* of a row and kept its institution
C15_Witness ==
    LET r == sess["s1"]
    IN  /\ r.pc = "done" /\ r.op = "update_education" /\ r.status = 200
        /\ DOMAIN r.body = {"degree"}
        /\ \E old \in r.pre.education : \E new \in db.education :
             /\ old.id = r.id /\ new.id = r.id
             /\ old.degree # new.degree /\ new.degree = r.body.degree
             /\ new.institution = old.institution /\ old.institution # NULL

\* C16: when the profiles table is empty, an authenticated POST /education,
\* /work-experience, /projects, /skills or /social-links answers 404 and
\* inserts nothing, and an authenticated PUT /profile answers 404 and changes
\* nothing.
C16_NoProfile ==
    LET r == sess["s1"]
    IN  (/\ r.pc = "done" /\ r.status # 401
         /\ r.op \in {"create_education", "create_work_experience", "create_project",
                      "create_skill", "create_social_link", "update_profile"}
         /\ r.pre.profiles = {}) =>
          r.status = 404 /\ db = r.pre

\* a POST /projects was answered 404 after a DELETE /profile had removed the
\* profile
C16_Witness ==
    LET r == sess["s1"]
    IN  /\ r.pc = "done" /\ r.op = "create_project" /\ r.status = 404
        /\ r.pre.profiles = {} /\ clock > 0
        /\ verify_credentials(r.credentials)

\* C17: the COMMIT of a PUT /profile leaves the profile with an updated_at
\* that is no older than the start of the request and no later than its end;
\* in every step the updated_at of a profile does not decrease and its
\* created_at does not change.
C17_UpdatedAt ==
    [][ /\ \A p \in db.profiles : \A q \in db'.profiles :
             p.id = q.id => q.created_at = p.created_at /\ q.updated_at >= p.updated_at
        /\ (At("s1", "update_profile", "commit") /\ sess'["s1"].pc = "refresh") =>
             \E q \in db'.profiles :
                /\ q.id = sess["s1"].pid
                /\ q.updated_at >= clock
                /\ q.updated_at <= clock' ]_vars

\* a second PUT /profile has succeeded on a profile and its updated_at is the
\* time of that request, later than its created_at
C17_Witness ==
    LET r == sess["s1"]
    IN  /\ r.pc = "done" /\ r.op = "update_profile" /\ r.status = 200
        /\ clock = 2
        /\ \E old \in r.pre.profiles : \E new \in db.profiles :
             /\ old.id = r.pid /\ new.id = r.pid
             /\ old.updated_at = 1 /\ new.updated_at = 2
             /\ new.created_at = old.created_at /\ new.created_at < 2
             /\ old.name = new.name /\ old.email = new.email

\* C18: a request whose INSERT violates a unique or a foreign key constraint
\* (IntegrityError) is answered 400 and leaves every table as it was.
C18_Conflict ==
    [][ \A s \in Sessions :
          (sess[s].pc # "done" /\ sess'[s].pc = "done" /\
           sess'[s].error = "IntegrityError") =>
             sess'[s].status = 400 /\ db' = db ]_vars

\* of two concurrent POST /profile with the same email, the one that inserted
\* second was refused by the unique index after the first had committed
C18_Witness ==
    \E s \in Sessions :
        /\ sess[s].pc = "done" /\ sess[s].op = "create_profile"
        /\ sess[s].error = "IntegrityError" /\ sess[s].status = 500
        /\ Cardinality(db.profiles) = 1

\* C19: an authenticated PUT or DELETE of a child, or a GET /projects/{id},
\* with an id of no row of the table answers 404 and leaves every table as it
\* was; an authenticated DELETE with the id of a row answers 204 and removes
\* that row and no other (with the project_skills rows that reference it), so
\* that the id is the id of no row afterwards.
C19_NotFound ==
    LET r == sess["s1"]
        T == CASE r.op \in {"update_education", "delete_education"} -> "education"
               [] r.op \in {"update_work_experience", "delete_work_experience"} ->
                    "work_experience"
               [] r.op \in {"update_project", "delete_project", "read_project"} -> "projects"
               [] r.op \in {"update_skill", "delete_skill"} -> "skills"
               [] OTHER -> "social_links"
        byId == { "update_education", "update_work_experience", "update_project",
                  "update_skill", "update_social_link", "read_project" }
        deletes == { "delete_education", "delete_work_experience", "delete_project",
                     "delete_skill", "delete_social_link" }
        kept(l) == /\ (T = "projects" => l.project_id # r.id)
                   /\ (T = "skills" => l.skill_id # r.id)
    IN  (r.pc = "done" /\ r.op \in (byId \cup deletes) /\ r.status # 401) =>
          IF r.id \notin Ids(r.pre[T])
          THEN r.status = 404 /\ db = r.pre
          ELSE r.op \in deletes =>
                 /\ r.status = 204
                 /\ db[T] = { x \in r.pre[T] : x.id # r.id }
                 /\ r.id \notin Ids(db[T])
                 /\ \A U \in (Tables \ {T, "project_skills"}) : db[U] = r.pre[U]
                 /\ db.project_skills = { l \in r.pre.project_skills : kept(l) }

\* a second DELETE /skills/1 was answered 404: the first had removed the
\* skill and the project_skills row of it
C19_Witness ==
    LET r == sess["s1"]
    IN  /\ r.pc = "done" /\ r.op = "delete_skill" /\ r.id = 1 /\ r.status = 404
        /\ clock = 1
        /\ 1 \notin Ids(db.skills) /\ 2 \in Ids(db.skills)
        /\ db.projects # {} /\ db.project_skills = {}

\* C21: while a POST /profile or a PUT /profile resolves the skill_ids of its
\* projects, every skill of its body is already inserted, with its id, and
\* read by the query; in a PUT /profile that carries a skills list the
\* profile's old skills are already deleted and not read.  So on success a
\* project is linked to every inserted skill its skill_ids name, and after
\* such a PUT to none of the replaced skills.
C21_SkillsBeforeProjects ==
    LET r == sess["s1"]
        list == IF r.op = "create_profile" THEN r.body.skills
                ELSE IF r.body.skills = None THEN <<>> ELSE The(r.body.skills)
        projects == IF r.op = "create_profile" THEN r.body.projects
                    ELSE IF r.body.projects = None THEN <<>> ELSE The(r.body.projects)
        replaces == r.op = "update_profile" /\ r.body.skills # None
        inserted == { seq.skills - Len(list) + j : j \in 1..Len(list) }
        old == { k \in r.pre.skills : k.profile_id = r.pid }
        linked(id) == { l.skill_id : l \in { l \in db.project_skills : l.project_id = id } }
    IN  /\ (At("s1", "create_profile", "projects") \/ At("s1", "update_profile", "resolve")) =>
             /\ Ids(r.ins.skills) = inserted
             /\ Cardinality(r.ins.skills) = Len(list)
             /\ r.ins.skills \subseteq Visible("s1", "skills")
             /\ replaces => old \cap Visible("s1", "skills") = {}
        /\ (/\ r.pc = "done" /\ r.status \in {200, 201}
            /\ r.op \in {"create_profile", "update_profile"}) =>
             \A i \in DOMAIN projects :
                LET id == seq.projects - Len(projects) + i
                IN  /\ Range(projects[i].skill_ids) \cap inserted \subseteq linked(id)
                    /\ replaces => linked(id) \cap Ids(old) = {}

\* a PUT /profile that replaced skill 1 by skill 2 has linked its project,
\* whose skill_ids name both, to skill 2 alone
C21_Witness ==
    LET r == sess["s1"]
    IN  /\ r.pc = "done" /\ r.op = "update_profile" /\ r.status = 200
        /\ r.body.skills # None /\ r.body.projects # None
        /\ 1 \in Ids(r.pre.skills) /\ Ids(db.skills) = {2}
        /\ \E p \in Range(The(r.body.projects)) : p.skill_ids = <<1, 2>>
        /\ { l.skill_id : l \in db.project_skills } = {2}

\* C22: an authenticated DELETE /skills/{id} of a stored skill removes that
\* skill row and exactly the project_skills rows with that skill_id: every
\* project row, every other project_skills row and every other table is as it
\* was; likewise DELETE /projects/{id} removes that project row and exactly
\* the project_skills rows with that project_id, every skill row and every
\* other project_skills row being as it was.
C22_DeleteLinks ==
    LET r == sess["s1"]
        T == IF r.op = "delete_skill" THEN "skills" ELSE "projects"
        column == IF r.op = "delete_skill" THEN "skill_id" ELSE "project_id"
    IN  (/\ r.pc = "done" /\ r.op \in {"delete_skill", "delete_project"}
         /\ r.status # 401 /\ r.id \in Ids(r.pre[T])) =>
          /\ r.status = 204
          /\ \E row \in r.pre[T] : row.id = r.id /\ db[T] = r.pre[T] \ {row}
          /\ db.project_skills = { l \in r.pre.project_skills : l[column] # r.id }
          /\ \A U \in Tables \ {T, "project_skills"} : db[U] = r.pre[U]

\* a DELETE /skills/1 has removed one of the two project_skills rows of a
\* project and left the project and its row for skill 2
C22_Witness ==
    LET r == sess["s1"]
    IN  /\ r.pc = "done" /\ r.op = "delete_skill" /\ r.id = 1 /\ r.status = 204
        /\ { Pair(l) : l \in r.pre.project_skills } =
              { project_skills(1, 1), project_skills(1, 2) }
        /\ { Pair(l) : l \in db.project_skills } = { project_skills(1, 2) }
        /\ db.projects = r.pre.projects /\ db.projects # {}

C24_ProjectSkills ==
    LET r == sess["s1"]
        linked(d, id) == { l \in d.project_skills : l.project_id = id }
        named(ids, id) == { project_skills(id, k) : k \in Range(ids) \cap Ids(r.pre.skills) }
    IN  /\ (/\ r.pc = "done" /\ r.op = "update_project" /\ r.status # 401
            /\ r.id \in Ids(r.pre.projects)) =>
             /\ r.status = 200
             /\ db.skills = r.pre.skills
             /\ IF r.body.skill_ids = None
                THEN db.project_skills = r.pre.project_skills
                ELSE /\ { Pair(l) : l \in linked(db, r.id) } =
                           named(The(r.body.skill_ids), r.id)
                     /\ \A l \in linked(db, r.id) : l.copy = 1
        /\ (r.pc = "done" /\ r.op = "create_project" /\ r.status = 201) =>
             /\ seq.projects \in Ids(db.projects) \ Ids(r.pre.projects)
             /\ db.skills = r.pre.skills
             /\ { Pair(l) : l \in linked(db, seq.projects) } =
                   named(r.body.skill_ids, seq.projects)
             /\ \A l \in linked(db, seq.projects) : l.copy = 1

\* a PUT /projects/1 whose skill_ids name skill 1 and the id of a deleted
\* skill has left the project linked to skill 1 alone
C24_Witness ==
    LET r == sess["s1"]
    IN  /\ r.pc = "done" /\ r.op = "update_project" /\ r.id = 1 /\ r.status = 200
        /\ r.body.skill_ids = Some(<<1, 2>>)
        /\ Ids(db.skills) = {1}
        /\ { Pair(l) : l \in db.project_skills } = { project_skills(1, 1) }

\* C25: GET /projects?skill=S&status=T answers 200 with exactly the projects
\* that are linked to a skill whose name is S, the case of letters aside and
\* as a whole string (when S is given and not empty), and whose status is
\* exactly T (when T is given and not empty), each of them once; with no
\* filter it returns every project.
C25_Projects ==
    LET r == sess["s1"]
        S == r.body.skill
        T == r.body.status
        uses(p, name) ==
            \E k \in db.skills :
               /\ \E l \in db.project_skills : l.project_id = p.id /\ l.skill_id = k.id
               /\ lower(Chars(k.name)) = lower(name)
        expected == { p \in db.projects :
                        /\ (S # None /\ The(S) # <<>>) => uses(p, The(S))
                        /\ (T # None /\ The(T) # "") => p.status = The(T) }
    IN  (r.pc = "done" /\ r.op = "get_projects") =>
          /\ r.status = 200
          /\ \A res \in r.result :
               /\ { res[i].project : i \in DOMAIN res } = expected
               /\ Len(res) = Cardinality(expected)
               /\ \A i \in DOMAIN res : res[i] = ProjectResponse("s1", res[i].project)
          /\ r.result # {}

\* GET /projects?skill=GO&status=completed has returned, once, a completed
\* project linked to two skills named Go, and not the other project
C25_Witness ==
    LET r == sess["s1"]
    IN  /\ r.pc = "done" /\ r.op = "get_projects" /\ r.status = 200
        /\ r.body.skill = Some(<<"G", "O">>) /\ r.body.status = Some("completed")
        /\ Cardinality({ l \in db.project_skills :
                           /\ l.project_id = 1
                           /\ \E k \in db.skills : k.id = l.skill_id /\ k.name = "Go" }) = 2
        /\ Cardinality(db.projects) = 2
        /\ \E res \in r.result :
             Len(res) = 1 /\ res[1].project.id = 1 /\ Cardinality(res[1].skills) = 2

\* C26: after a successful PUT /profile whose body carries a skills list and
\* no projects field, the project rows are as they were and the
\* project_skills table is empty: no project is linked to a skill.
C26_LinksRemoved ==
    LET r == sess["s1"]
    IN  (/\ r.pc = "done" /\ r.op = "update_profile" /\ r.status = 200
         /\ r.body.skills # None /\ r.body.projects = None) =>
          /\ db.projects = r.pre.projects
          /\ db.project_skills = {}

\* C27: a successful POST, PUT or DELETE of an education, work experience,
\* project, skill or social link leaves the profiles table as it was, every
\* field and updated_at included, and leaves the other child tables as they
\* were; project_skills rows change only with the skill_ids of a POST or PUT
\* of a project (rows of that project) and with the DELETE of a project or a
\* skill (rows of it removed).
C27_ChildFrame ==
    LET r == sess["s1"]
        child == CASE r.op \in {"create_education", "update_education",
                                "delete_education"} -> "education"
                   [] r.op \in {"create_work_experience", "update_work_experience",
                                "delete_work_experience"} -> "work_experience"
                   [] r.op \in {"create_project", "update_project",
                                "delete_project"} -> "projects"
                   [] r.op \in {"create_skill", "update_skill", "delete_skill"} -> "skills"
                   [] OTHER -> "social_links"
        id == IF r.op = "create_project" THEN seq.projects ELSE r.id
        others(d) == { l \in d.project_skills : l.project_id # id }
    IN  (/\ r.pc = "done" /\ r.status \in {200, 201, 204}
         /\ r.op \in WriteOps \ {"create_profile", "update_profile", "delete_profile"}) =>
          /\ db.profiles = r.pre.profiles
          /\ \A U \in ChildTables \ {child} : db[U] = r.pre[U]
          /\ CASE r.op \in {"create_project", "update_project"} -> others(db) = others(r.pre)
               [] r.op \in {"delete_project", "delete_skill"} ->
                    db.project_skills \subseteq r.pre.project_skills
               [] OTHER -> db.project_skills = r.pre.project_skills

\* a PUT /skills/{id} has changed a skill row of a profile whose updated_at is
\* still the time of an earlier request
C27_Witness ==
    LET r == sess["s1"]
    IN  /\ r.pc = "done" /\ r.op = "update_skill" /\ r.status = 200
        /\ db.skills # r.pre.skills
        /\ db.profiles = r.pre.profiles
        /\ clock = 2
        /\ \E p \in db.profiles : p.updated_at = 1

\* C28: a GET of any endpoint, whatever its parameters and its answer, leaves
\* every table as it was, and the same GET sent again with the tables
\* unchanged gets the same answer with the same set of records.
C28_ReadOnly ==
    LET a == sess["s1"]
        b == sess["s2"]
        records(r) == CASE r.status # 200 \/ r.op = "health_check" -> {}
                        [] r.op \in {"read_profile", "read_project"} -> r.result
                        [] OTHER -> UNION { Range(res) : res \in r.result }
    IN  /\ \A s \in Sessions :
             (sess[s].pc = "done" /\ sess[s].op \in ReadOps) => db = sess[s].pre
        /\ (/\ a.pc = "done" /\ b.pc = "done"
            /\ a.op \in ReadOps /\ b.op = a.op /\ b.id = a.id /\ b.pre = a.pre) =>
             /\ b.status = a.status
             /\ records(b) = records(a)

\* C29: a GET of a child collection that runs while a PUT /profile replaces
\* the collection answers with the complete list as it was before the PUT or
\* with the complete list as the PUT has committed it: the rows of the list,
\* and for a project its skills, are those of the tables when the GET arrived
\* or those of the tables when it answers.
C29_ReadCommitted ==
    [][ \A s \in Sessions :
          (/\ sess[s].pc # "done" /\ sess'[s].pc = "done"
           /\ sess'[s].op \in ChildReads /\ sess'[s].status = 200) =>
             LET pid == sess'[s].pid
                 list(d) ==
                     CASE sess[s].op = "read_education" ->
                            { r \in d.education : r.profile_id = pid }
                       [] sess[s].op = "read_work_experience" ->
                            { r \in d.work_experience : r.profile_id = pid }
                       [] sess[s].op = "read_skills" ->
                            { r \in d.skills : r.profile_id = pid }
                       [] sess[s].op = "read_social_links" ->
                            { r \in d.social_links : r.profile_id = pid }
                       [] sess[s].op = "get_projects" ->
                            { [project |-> p,
                               skills |-> { k \in d.skills :
                                              \E l \in d.project_skills :
                                                 l.project_id = p.id /\ l.skill_id = k.id }]
                              : p \in d.projects }
             IN  \E d \in {sess[s].pre, db'} :
                    \A res \in sess'[s].result : Range(res) = list(d) ]_vars

\* a GET /projects that read the projects before a PUT /profile committed and
\* their skills after it has answered with the old project and no skill,
\* where the project had a skill before and is gone after
C29_Witness ==
    \E s \in Sessions :
        /\ sess[s].pc = "done" /\ sess[s].op = "get_projects" /\ sess[s].status = 200
        /\ \E res \in sess[s].result : \E i \in DOMAIN res :
             /\ res[i].skills = {}
             /\ res[i].project \in sess[s].pre.projects
             /\ res[i].project \notin db.projects
             /\ \E l \in sess[s].pre.project_skills : l.project_id = res[i].project.id


====
